---------------------------- MODULE Spec2Model ----------------------------
(***************************************************************************)
(* A model of the turn-resolution pipeline of webdnd:                      *)
(*   - calculateFinalAttributes  (lib/utils)                               *)
(*   - applyGameStateChanges     (app/game/[sessionId]/page.tsx)           *)
(*   - handleUserAction          (app/game/[sessionId]/page.tsx)           *)
(*   - GameInitView              (app/game/new/[scenarioId]/view.tsx)      *)
(*                                                                         *)
(* Data abstractions.  A DialogueEntry is [role, text]; its timestamp is   *)
(* not modelled.  A PlayerSkill is [skillName, level]; its description is  *)
(* not modelled, and level is always a number (every state written by     *)
(* handleStartGame or by a "learn" has one), so (level || 0) is level.     *)
(* JavaScript arrays are 1-based sequences here and findIndex returns 0    *)
(* where the code returns -1.  An object used as a map is a function       *)
(* whose DOMAIN is the set of keys present.                                *)
(***************************************************************************)
EXTENDS Integers, Sequences, FiniteSets, TLC

VARIABLES
    gameState,     \* the GameState object handed to applyGameStateChanges
    observed,      \* what the last applyGameStateChanges call was seen to do
    store,         \* the games table: session id -> row
    turn,          \* per request: the call frame of handleUserAction
    turnsStarted,  \* number of handleUserAction calls started so far
    lastSaved,     \* per session: the request whose update wrote the row last
    view,          \* the React state of GameInitView
    loads          \* per browser tab: the call frame of loadSave

vars ==
    <<gameState, observed, store, turn, turnsStarted, lastSaved, view, loads>>

---------------------------------------------------------------------------
(* Bounds of the model *)

\* longest list of changes inside one delta
MaxChanges == 2
\* largest quantity an inventory entry is allowed to reach
MaxQty == 2
\* largest skill level a skill is allowed to reach
MaxLevel == 3
\* number of handleUserAction calls in one behaviour
MaxTurns == 2
\* Math.random() returns one of the fractions k / RandomSteps, 0 <= k < RandomSteps
RandomSteps == 40
\* how far a base attribute moves from its starting value in the dice model
MaxShift == 1

---------------------------------------------------------------------------
(* Input domains *)

Items == {"sword", "potion", "rope"}
SkillNames == {"stealth", "lockpick"}
SkillChangeTypes == {"learn", "forget", "improve", "deteriorate"}
\* quantity changes of a delta that holds one item change
QuantityChanges == -2 .. 2
\* quantity changes inside the longer lists of item changes
ListQuantityChanges == {-2, -1, 1}
\* the numbers a skill change may carry; a change may also carry no value
SkillValues == -1 .. 1

\* sequences over S of length at most n
SeqsUpTo(S, n) == UNION {[1 .. k -> S] : k \in 0 .. n}

ItemChange == [item : Items, quantityChange : QuantityChanges]
\* the item changes the longer lists are made of
ListItemChange == [item : Items, quantityChange : ListQuantityChanges]
SkillChange ==
    [skillName : SkillNames, type : SkillChangeTypes,
     hasValue : {TRUE}, value : SkillValues]
    \cup [skillName : SkillNames, type : SkillChangeTypes,
          hasValue : {FALSE}, value : {0}]
\* the skill changes the longer lists are made of: every operation on every
\* skill, with the value 1
ListSkillChange ==
    [skillName : SkillNames, type : SkillChangeTypes,
     hasValue : {TRUE}, value : {1}]

\* the lists of changes of one kind a delta may hold: any single change, or
\* a list of up to MaxChanges of the changes named in L
ChangeLists(S, L) == {<<c>> : c \in S} \cup SeqsUpTo(L, MaxChanges)

---------------------------------------------------------------------------
(* Helpers for JavaScript objects and arrays *)

\* obj[key] = value on an object used as a map
MapSet(obj, key, value) ==
    [k \in DOMAIN obj \cup {key} |-> IF k = key THEN value ELSE obj[k]]

\* array.splice(i, 1)
Splice(arr, i) ==
    [j \in 1 .. Len(arr) - 1 |-> IF j < i THEN arr[j] ELSE arr[j + 1]]

\* Math.max(a, b)
Max(a, b) == IF a >= b THEN a ELSE b

---------------------------------------------------------------------------
(* The scenario catalog (data/scenarios).  sc1 has two attributes and one   *)
(* customization category of two options.  sc2 has a second category, and  *)
(* options whose bonus names LUCK, which is no attribute of the scenario.  *)
(* The first option of a category is the first key of its content object.  *)

Attributes == {"STR", "AGI"}

allScenarios ==
    { [id |-> "sc1",
       attributes |-> Attributes,
       startingPoint |-> "start",
       baseSkills |-> {"stealth", "lockpick"},
       firstOption |-> [role |-> "warrior"],
       playerCustomizations |->
           [role |-> [warrior |-> [STR |-> 2], rogue |-> [AGI |-> 1]]]],
      [id |-> "sc2",
       attributes |-> Attributes,
       startingPoint |-> "gate",
       baseSkills |-> {"stealth", "lockpick", "herbs"},
       firstOption |-> [role |-> "warrior", origin |-> "noble"],
       playerCustomizations |->
           [role |-> [warrior |-> [STR |-> 2],
                      rogue |-> [AGI |-> 1, LUCK |-> 1]],
            origin |-> [noble |-> [LUCK |-> 2],
                        farmer |-> [STR |-> 1, AGI |-> -1]]]] }

scenarioSc1 == CHOOSE s \in allScenarios : s.id = "sc1"
scenarioSc2 == CHOOSE s \in allScenarios : s.id = "sc2"

---------------------------------------------------------------------------
(* calculateFinalAttributes *)

\* addBonus with = for +=: a bonus replaces the value it should raise
RECURSIVE addBonus_Overwrites(_, _, _)
addBonus_Overwrites(finalAttrs, bonus, todo) ==
    IF todo = {} THEN finalAttrs
    ELSE LET attr == CHOOSE a \in todo : TRUE
         IN  addBonus_Overwrites(MapSet(finalAttrs, attr, bonus[attr]),
                                 bonus, todo \ {attr})

\* one bonus map added to finalAttrs, attribute by attribute (the inner loop)
RECURSIVE addBonus(_, _, _)
addBonus(finalAttrs, bonus, todo) ==
    IF todo = {} THEN finalAttrs
    ELSE LET attr == CHOOSE a \in todo : TRUE
             next == IF attr \in DOMAIN finalAttrs
                     THEN [finalAttrs EXCEPT ![attr] = @ + bonus[attr]]
                     ELSE MapSet(finalAttrs, attr, bonus[attr])
         IN  addBonus(next, bonus, todo \ {attr})

\* addSelections that leaves the loop after the first bonus it has added
RECURSIVE addSelections_FirstOnly(_, _, _, _)
addSelections_FirstOnly(finalAttrs, customs, currentScenario, todo) ==
    IF todo = {} THEN finalAttrs
    ELSE LET categoryKey == CHOOSE c \in todo : TRUE
             selectedOptionKey == customs[categoryKey]
             cats == currentScenario.playerCustomizations
             found == /\ categoryKey \in DOMAIN cats
                      /\ selectedOptionKey \in DOMAIN cats[categoryKey]
         IN  IF found
             THEN LET bonus == cats[categoryKey][selectedOptionKey]
                  IN  addBonus(finalAttrs, bonus, DOMAIN bonus)
             ELSE addSelections_FirstOnly(finalAttrs, customs, currentScenario,
                                          todo \ {categoryKey})

\* the outer loop over the selected categories
RECURSIVE addSelections(_, _, _, _)
addSelections(finalAttrs, customs, currentScenario, todo) ==
    IF todo = {} THEN finalAttrs
    ELSE LET categoryKey == CHOOSE c \in todo : TRUE
             selectedOptionKey == customs[categoryKey]
             cats == currentScenario.playerCustomizations
             found == /\ categoryKey \in DOMAIN cats
                      /\ selectedOptionKey \in DOMAIN cats[categoryKey]
             next == IF found
                     THEN LET bonus == cats[categoryKey][selectedOptionKey]
                          IN  addBonus(finalAttrs, bonus, DOMAIN bonus)
                     ELSE finalAttrs
         IN  addSelections(next, customs, currentScenario, todo \ {categoryKey})

calculateFinalAttributes(baseAttrs, customs, currentScenario) ==
    addSelections(baseAttrs, customs, currentScenario, DOMAIN customs)

---------------------------------------------------------------------------
(* applyGameStateChanges *)

\* a delta with no field set: the JSON object {}
NoChanges ==
    [itemChanges |-> <<>>, attributeChanges |-> <<>>, skillChanges |-> <<>>,
     locationUpdate |-> "", storyFlags |-> <<>>,
     requiresDiceRoll |-> FALSE, relevantAttribute |-> "",
     difficultyClass |-> [defined |-> FALSE, value |-> 0]]

\* the values rollD20 can return: Math.floor(Math.random() * 20) + 1
rollD20 == {((k * 20) \div RandomSteps) + 1 : k \in 0 .. RandomSteps - 1}

\* inventory.findIndex((item) => item.item === name); 0 when there is none
findItemIndex(inventory, name) ==
    IF \E i \in 1 .. Len(inventory) : inventory[i].item = name
    THEN CHOOSE i \in 1 .. Len(inventory) :
             /\ inventory[i].item = name
             /\ \A j \in 1 .. i - 1 : inventory[j].item # name
    ELSE 0

\* itemChange with the removal test written < 0: an entry may stay at 0
itemChange_KeepsZero(inventory, change) ==
    LET existingItemIndex == findItemIndex(inventory, change.item)
    IN  IF existingItemIndex # 0
        THEN LET added == [inventory EXCEPT ![existingItemIndex].quantity =
                                                @ + change.quantityChange]
             IN  IF added[existingItemIndex].quantity < 0
                 THEN Splice(added, existingItemIndex)
                 ELSE added
        ELSE IF change.quantityChange > 0
        THEN Append(inventory,
                    [item |-> change.item, quantity |-> change.quantityChange])
        ELSE inventory

\* itemChange with unshift in place of push: a new entry is put first
itemChange_Unshift(inventory, change) ==
    LET existingItemIndex == findItemIndex(inventory, change.item)
    IN  IF existingItemIndex # 0
        THEN LET added == [inventory EXCEPT ![existingItemIndex].quantity =
                                                @ + change.quantityChange]
             IN  IF added[existingItemIndex].quantity <= 0
                 THEN Splice(added, existingItemIndex)
                 ELSE added
        ELSE IF change.quantityChange > 0
        THEN <<[item |-> change.item, quantity |-> change.quantityChange]>>
                 \o inventory
        ELSE inventory

\* the body of the loop over changes.itemChanges
itemChange(inventory, change) ==
    LET existingItemIndex == findItemIndex(inventory, change.item)
    IN  IF existingItemIndex # 0
        THEN LET added == [inventory EXCEPT ![existingItemIndex].quantity =
                                                @ + change.quantityChange]
             IN  IF added[existingItemIndex].quantity <= 0
                 THEN Splice(added, existingItemIndex)
                 ELSE added
        ELSE IF change.quantityChange > 0
        THEN Append(inventory,
                    [item |-> change.item, quantity |-> change.quantityChange])
        ELSE inventory

RECURSIVE itemChanges(_, _)
itemChanges(inventory, cs) ==
    IF cs = <<>> THEN inventory
    ELSE itemChanges(itemChange(inventory, Head(cs)), Tail(cs))

\* the body of the loop over changes.attributeChanges
attributeChange(baseAttributes, change) ==
    IF change.attribute \in DOMAIN baseAttributes
    THEN [baseAttributes EXCEPT ![change.attribute] = @ + change.valueChange]
    ELSE MapSet(baseAttributes, change.attribute, change.valueChange)

RECURSIVE attributeChanges(_, _)
attributeChanges(baseAttributes, cs) ==
    IF cs = <<>> THEN baseAttributes
    ELSE attributeChanges(attributeChange(baseAttributes, Head(cs)), Tail(cs))

\* playerSkills.findIndex((s) => s.skillName === name); 0 when there is none
findSkillIndex(playerSkills, name) ==
    IF \E i \in 1 .. Len(playerSkills) : playerSkills[i].skillName = name
    THEN CHOOSE i \in 1 .. Len(playerSkills) :
             /\ playerSkills[i].skillName = name
             /\ \A j \in 1 .. i - 1 : playerSkills[j].skillName # name
    ELSE 0

\* skillChange with "learn" handled before the lookup: it always appends
skillChange_LearnAppends(playerSkills, change) ==
    LET existingSkillIndex == findSkillIndex(playerSkills, change.skillName)
    IN  IF change.type = "learn"
        THEN Append(playerSkills,
                    [skillName |-> change.skillName,
                     level |-> IF change.hasValue /\ change.value # 0
                               THEN change.value ELSE 1])
        ELSE IF existingSkillIndex # 0
        THEN IF change.type = "improve" /\ change.hasValue
             THEN [playerSkills EXCEPT ![existingSkillIndex].level =
                                           @ + change.value]
             ELSE IF change.type = "deteriorate" /\ change.hasValue
             THEN [playerSkills EXCEPT ![existingSkillIndex].level =
                                           Max(0, @ - change.value)]
             ELSE IF change.type = "forget"
             THEN Splice(playerSkills, existingSkillIndex)
             ELSE playerSkills
        ELSE playerSkills

\* skillChange without Math.max(0, ...): deteriorate may go below zero
skillChange_NoFloor(playerSkills, change) ==
    LET existingSkillIndex == findSkillIndex(playerSkills, change.skillName)
    IN  IF existingSkillIndex # 0
        THEN IF change.type = "improve" /\ change.hasValue
             THEN [playerSkills EXCEPT ![existingSkillIndex].level =
                                           @ + change.value]
             ELSE IF change.type = "deteriorate" /\ change.hasValue
             THEN [playerSkills EXCEPT ![existingSkillIndex].level =
                                           @ - change.value]
             ELSE IF change.type = "forget"
             THEN Splice(playerSkills, existingSkillIndex)
             ELSE playerSkills
        ELSE IF change.type = "learn"
        THEN Append(playerSkills,
                    [skillName |-> change.skillName,
                     level |-> IF change.hasValue /\ change.value # 0
                               THEN change.value ELSE 1])
        ELSE playerSkills

\* the body of the loop over changes.skillChanges
skillChange(playerSkills, change) ==
    LET existingSkillIndex == findSkillIndex(playerSkills, change.skillName)
    IN  IF existingSkillIndex # 0
        THEN IF change.type = "improve" /\ change.hasValue
             THEN [playerSkills EXCEPT ![existingSkillIndex].level =
                                           @ + change.value]
             ELSE IF change.type = "deteriorate" /\ change.hasValue
             THEN [playerSkills EXCEPT ![existingSkillIndex].level =
                                           Max(0, @ - change.value)]
             ELSE IF change.type = "forget"
             THEN Splice(playerSkills, existingSkillIndex)
             ELSE playerSkills
        ELSE IF change.type = "learn"
        THEN Append(playerSkills,
                    [skillName |-> change.skillName,
                     \* change.value || 1: no value and 0 both give 1
                     level |-> IF change.hasValue /\ change.value # 0
                               THEN change.value ELSE 1])
        ELSE playerSkills

RECURSIVE skillChanges(_, _)
skillChanges(playerSkills, cs) ==
    IF cs = <<>> THEN playerSkills
    ELSE skillChanges(skillChange(playerSkills, Head(cs)), Tail(cs))

\* the loop over changes.storyFlags
RECURSIVE storyFlags(_, _)
storyFlags(gameProgression, fs) ==
    IF fs = <<>> THEN gameProgression
    ELSE storyFlags(MapSet(gameProgression, Head(fs).flag, Head(fs).value),
                    Tail(fs))

\* skillCheck without the two overrides: the comparison decides every roll
skillCheck_NoCritical(chg, finalAttributes, diceRollResult) ==
    LET skillCheckAttribute == chg.relevantAttribute
        skillCheckDC == chg.difficultyClass.value
        playerAttrValue == IF skillCheckAttribute \in DOMAIN finalAttributes
                           THEN finalAttributes[skillCheckAttribute] ELSE 0
    IN  [part |-> "skillCheck", attribute |-> skillCheckAttribute,
         dc |-> skillCheckDC, roll |-> diceRollResult,
         attrValue |-> playerAttrValue,
         success |-> diceRollResult + playerAttrValue >= skillCheckDC]

\* skillCheck with > for >=: meeting the difficulty class is not enough
skillCheck_Strict(chg, finalAttributes, diceRollResult) ==
    LET skillCheckAttribute == chg.relevantAttribute
        skillCheckDC == chg.difficultyClass.value
        playerAttrValue == IF skillCheckAttribute \in DOMAIN finalAttributes
                           THEN finalAttributes[skillCheckAttribute] ELSE 0
        skillCheckSuccess ==
            IF diceRollResult = 1 THEN FALSE
            ELSE IF diceRollResult = 20 THEN TRUE
            ELSE diceRollResult + playerAttrValue > skillCheckDC
    IN  [part |-> "skillCheck", attribute |-> skillCheckAttribute,
         dc |-> skillCheckDC, roll |-> diceRollResult,
         attrValue |-> playerAttrValue, success |-> skillCheckSuccess]

\* the skill check: the summary part it adds, for the die diceRollResult
skillCheck(chg, finalAttributes, diceRollResult) ==
    LET skillCheckAttribute == chg.relevantAttribute
        skillCheckDC == chg.difficultyClass.value
        playerAttrValue == IF skillCheckAttribute \in DOMAIN finalAttributes
                           THEN finalAttributes[skillCheckAttribute] ELSE 0
        skillCheckSuccess ==
            IF diceRollResult = 1 THEN FALSE
            ELSE IF diceRollResult = 20 THEN TRUE
            ELSE diceRollResult + playerAttrValue >= skillCheckDC
    IN  [part |-> "skillCheck", attribute |-> skillCheckAttribute,
         dc |-> skillCheckDC, roll |-> diceRollResult,
         attrValue |-> playerAttrValue, success |-> skillCheckSuccess]

\* whether the delta asks for a skill check (the condition of the last if)
rollsDice(chg) ==
    /\ chg.requiresDiceRoll
    /\ chg.relevantAttribute # ""
    /\ chg.difficultyClass.defined

\* applyGameStateChanges that also writes the outcome of the skill check
\* into gameProgression
applyGameStateChanges_StoresCheck(gs, chg, finalAttributes, diceRollResult) ==
    LET s1 == IF Len(chg.itemChanges) > 0
              THEN [gs EXCEPT !.inventory = itemChanges(@, chg.itemChanges)]
              ELSE gs
        p1 == IF Len(chg.itemChanges) > 0
              THEN <<[part |-> "itemChanges", itemChanges |-> chg.itemChanges]>>
              ELSE <<>>
        s2 == IF Len(chg.attributeChanges) > 0
              THEN [s1 EXCEPT !.baseAttributes =
                                  attributeChanges(@, chg.attributeChanges)]
              ELSE s1
        p2 == IF Len(chg.attributeChanges) > 0
              THEN <<[part |-> "attributeChanges",
                      attributeChanges |-> chg.attributeChanges]>>
              ELSE <<>>
        s3 == IF Len(chg.skillChanges) > 0
              THEN [s2 EXCEPT !.playerSkills = skillChanges(@, chg.skillChanges)]
              ELSE s2
        p3 == IF Len(chg.skillChanges) > 0
              THEN <<[part |-> "skillChanges", skillChanges |-> chg.skillChanges]>>
              ELSE <<>>
        s4 == IF chg.locationUpdate # ""
              THEN [s3 EXCEPT !.currentLocation = chg.locationUpdate]
              ELSE s3
        p4 == IF chg.locationUpdate # ""
              THEN <<[part |-> "locationUpdate",
                      locationUpdate |-> chg.locationUpdate]>>
              ELSE <<>>
        s5 == IF Len(chg.storyFlags) > 0
              THEN [s4 EXCEPT !.gameProgression = storyFlags(@, chg.storyFlags)]
              ELSE s4
        p5 == IF Len(chg.storyFlags) > 0
              THEN <<[part |-> "storyFlags", storyFlags |-> chg.storyFlags]>>
              ELSE <<>>
        p6 == IF rollsDice(chg)
              THEN <<skillCheck(chg, finalAttributes, diceRollResult)>>
              ELSE <<>>
        s6 == IF rollsDice(chg)
              THEN [s5 EXCEPT !.gameProgression =
                                  MapSet(@, "lastCheck", p6[1].success)]
              ELSE s5
    IN  [gameState |-> s6,
         narrativeContextPart |-> p1 \o p2 \o p3 \o p4 \o p5 \o p6]

\* applyGameStateChanges that reports the location whether or not the delta
\* has one
applyGameStateChanges_AlwaysLocation(gs, chg, finalAttributes, diceRollResult) ==
    LET s1 == IF Len(chg.itemChanges) > 0
              THEN [gs EXCEPT !.inventory = itemChanges(@, chg.itemChanges)]
              ELSE gs
        p1 == IF Len(chg.itemChanges) > 0
              THEN <<[part |-> "itemChanges", itemChanges |-> chg.itemChanges]>>
              ELSE <<>>
        s2 == IF Len(chg.attributeChanges) > 0
              THEN [s1 EXCEPT !.baseAttributes =
                                  attributeChanges(@, chg.attributeChanges)]
              ELSE s1
        p2 == IF Len(chg.attributeChanges) > 0
              THEN <<[part |-> "attributeChanges",
                      attributeChanges |-> chg.attributeChanges]>>
              ELSE <<>>
        s3 == IF Len(chg.skillChanges) > 0
              THEN [s2 EXCEPT !.playerSkills = skillChanges(@, chg.skillChanges)]
              ELSE s2
        p3 == IF Len(chg.skillChanges) > 0
              THEN <<[part |-> "skillChanges", skillChanges |-> chg.skillChanges]>>
              ELSE <<>>
        s4 == IF chg.locationUpdate # ""
              THEN [s3 EXCEPT !.currentLocation = chg.locationUpdate]
              ELSE s3
        p4 == <<[part |-> "locationUpdate",
                 locationUpdate |-> chg.locationUpdate]>>
        s5 == IF Len(chg.storyFlags) > 0
              THEN [s4 EXCEPT !.gameProgression = storyFlags(@, chg.storyFlags)]
              ELSE s4
        p5 == IF Len(chg.storyFlags) > 0
              THEN <<[part |-> "storyFlags", storyFlags |-> chg.storyFlags]>>
              ELSE <<>>
        p6 == IF rollsDice(chg)
              THEN <<skillCheck(chg, finalAttributes, diceRollResult)>>
              ELSE <<>>
    IN  [gameState |-> s5,
         narrativeContextPart |-> p1 \o p2 \o p3 \o p4 \o p5 \o p6]

\* applyGameStateChanges(gameState, changes, finalAttributes), where
\* diceRollResult is what rollD20() returns if it is called.  The result is
\* the mutated gameState and the returned narrativeContextPart, a sequence
\* of parts in the order the code appends them.
applyGameStateChanges(gs, chg, finalAttributes, diceRollResult) ==
    LET s1 == IF Len(chg.itemChanges) > 0
              THEN [gs EXCEPT !.inventory = itemChanges(@, chg.itemChanges)]
              ELSE gs
        p1 == IF Len(chg.itemChanges) > 0
              THEN <<[part |-> "itemChanges", itemChanges |-> chg.itemChanges]>>
              ELSE <<>>
        s2 == IF Len(chg.attributeChanges) > 0
              THEN [s1 EXCEPT !.baseAttributes =
                                  attributeChanges(@, chg.attributeChanges)]
              ELSE s1
        p2 == IF Len(chg.attributeChanges) > 0
              THEN <<[part |-> "attributeChanges",
                      attributeChanges |-> chg.attributeChanges]>>
              ELSE <<>>
        s3 == IF Len(chg.skillChanges) > 0
              THEN [s2 EXCEPT !.playerSkills = skillChanges(@, chg.skillChanges)]
              ELSE s2
        p3 == IF Len(chg.skillChanges) > 0
              THEN <<[part |-> "skillChanges", skillChanges |-> chg.skillChanges]>>
              ELSE <<>>
        s4 == IF chg.locationUpdate # ""
              THEN [s3 EXCEPT !.currentLocation = chg.locationUpdate]
              ELSE s3
        p4 == IF chg.locationUpdate # ""
              THEN <<[part |-> "locationUpdate",
                      locationUpdate |-> chg.locationUpdate]>>
              ELSE <<>>
        s5 == IF Len(chg.storyFlags) > 0
              THEN [s4 EXCEPT !.gameProgression = storyFlags(@, chg.storyFlags)]
              ELSE s4
        p5 == IF Len(chg.storyFlags) > 0
              THEN <<[part |-> "storyFlags", storyFlags |-> chg.storyFlags]>>
              ELSE <<>>
        p6 == IF rollsDice(chg)
              THEN <<skillCheck(chg, finalAttributes, diceRollResult)>>
              ELSE <<>>
    IN  [gameState |-> s5,
         narrativeContextPart |-> p1 \o p2 \o p3 \o p4 \o p5 \o p6]

---------------------------------------------------------------------------
(* applyGameStateChanges on a delta as JSON.parse gives it: an element of  *)
(* a list may be null.  Reading a property of null throws a TypeError,     *)
(* which ends the call there: what was done before stays done (the state   *)
(* is mutated in place) and nothing is returned.                           *)

\* the JSON value null
Null == [null |-> TRUE]

\* the index of the first null element of a list, 0 when there is none
firstNull(cs) ==
    IF \E i \in 1 .. Len(cs) : cs[i] = Null
    THEN CHOOSE i \in 1 .. Len(cs) :
             cs[i] = Null /\ \A j \in 1 .. i - 1 : cs[j] # Null
    ELSE 0

\* the elements of a list before its first null element
beforeNull(cs) == SubSeq(cs, 1, firstNull(cs) - 1)

\* whether a loop of the call reads a property of a null element: each
\* loop reads change.item, change.attribute, change.skillName or change.type,
\* or flag.flag, of every element it gets to
throwsTypeError(chg) ==
    \/ firstNull(chg.itemChanges) # 0
    \/ firstNull(chg.attributeChanges) # 0
    \/ firstNull(chg.skillChanges) # 0
    \/ firstNull(chg.storyFlags) # 0

\* the part of the delta the call has run when the TypeError is thrown
executedBeforeThrow(chg) ==
    IF firstNull(chg.itemChanges) # 0
    THEN [NoChanges EXCEPT !.itemChanges = beforeNull(chg.itemChanges)]
    ELSE IF firstNull(chg.attributeChanges) # 0
    THEN [NoChanges EXCEPT !.itemChanges = chg.itemChanges,
                           !.attributeChanges = beforeNull(chg.attributeChanges)]
    ELSE IF firstNull(chg.skillChanges) # 0
    THEN [NoChanges EXCEPT !.itemChanges = chg.itemChanges,
                           !.attributeChanges = chg.attributeChanges,
                           !.skillChanges = beforeNull(chg.skillChanges)]
    ELSE [NoChanges EXCEPT !.itemChanges = chg.itemChanges,
                           !.attributeChanges = chg.attributeChanges,
                           !.skillChanges = chg.skillChanges,
                           !.locationUpdate = chg.locationUpdate,
                           !.storyFlags = beforeNull(chg.storyFlags)]

\* applyGameStateChanges(gameState, changes, finalAttributes) for such a
\* delta: the mutated gameState, whether the call threw, and the summary
\* it returned if it did not
applyParsedJson(gs, chg, finalAttributes, diceRollResult) ==
    IF throwsTypeError(chg)
    THEN [gameState |->
              applyGameStateChanges(gs, executedBeforeThrow(chg),
                                    finalAttributes, diceRollResult).gameState,
          threw |-> TRUE,
          narrativeContextPart |-> <<>>]
    ELSE [gameState |->
              applyGameStateChanges(gs, chg, finalAttributes,
                                    diceRollResult).gameState,
          threw |-> FALSE,
          narrativeContextPart |->
              applyGameStateChanges(gs, chg, finalAttributes,
                                    diceRollResult).narrativeContextPart]

---------------------------------------------------------------------------
(* The state after character creation (handleStartGame) and the store *)

\* the text of a dialogue entry: what it is and the request it belongs to
Text(kind, n) == [kind |-> kind, n |-> n]

\* the GameState handleStartGame inserts: every attribute at 5 plus the
\* player's share of the 10 points, the first option of each category, one
\* starting skill at level 1, and the narrator's introduction
InitialGameState ==
    [scenarioId |-> "sc1",
     baseAttributes |-> [STR |-> 10, AGI |-> 10],
     selectedCustomizations |-> [role |-> "warrior"],
     currentLocation |-> "start",
     inventory |-> <<>>,
     playerSkills |-> <<[skillName |-> "stealth", level |-> 1]>>,
     gameProgression |-> <<>>,
     dialogueHistory |-> <<[role |-> "dm", text |-> Text("intro", 0)]>>]

Sessions == {"g1", "g2"}
Users == {"alice", "bob"}

\* g1 is alice's game of scenario sc1; g2 is alice's game of a scenario
\* that is no longer in the catalog
InitialStore ==
    [g \in Sessions |->
        [user_id |-> "alice",
         scenario_id |-> IF g = "g1" THEN "sc1" ELSE "removed",
         is_active |-> TRUE,
         state |-> InitialGameState]]

---------------------------------------------------------------------------
(* GameInitView: the character-creation view.  An event handler runs on    *)
(* the state of the last render; the view is rendered between two events.  *)

BASE_ATTRIBUTE_VALUE == 5
TOTAL_BONUS_POINTS == 10
MAX_STARTING_SKILLS == 2

\* the state after the initialising effect has run for the scenario;
\* strictMode tells whether React runs the view in Strict Mode (yarn dev)
initialView(scenario, user, gameName, strictMode) ==
    [scenarioId |-> scenario.id, user |-> user, gameName |-> gameName,
     strictMode |-> strictMode,
     baseAttributeValues |-> [a \in scenario.attributes |-> BASE_ATTRIBUTE_VALUE],
     remainingPoints |-> TOTAL_BONUS_POINTS,
     selectedCustomizations |-> scenario.firstOption,
     selectedSkills |-> <<>>]

\* handleAttributeChange(attribute, change).  setRemainingPoints is called
\* inside the updater of setBaseAttributeValues; in Strict Mode React runs
\* an updater twice, so the decrement is queued twice while the value the
\* updater returns is stored once
handleAttributeChange(v, attribute, change) ==
    LET prev == v.baseAttributeValues
        currentValue == IF attribute \in DOMAIN prev /\ prev[attribute] # 0
                        THEN prev[attribute] ELSE BASE_ATTRIBUTE_VALUE
        newValue == currentValue + change
        updaterRuns == IF v.strictMode THEN 2 ELSE 1
    IN  IF change > 0 /\ v.remainingPoints <= 0 THEN v
        ELSE IF change < 0 /\ newValue < BASE_ATTRIBUTE_VALUE THEN v
        ELSE [v EXCEPT !.remainingPoints = @ - updaterRuns * change,
                       !.baseAttributeValues = MapSet(@, attribute, newValue)]

\* handleSkillToggle(skillName)
handleSkillToggle(v, scenario, skillName) ==
    LET prevSkills == v.selectedSkills
        isSelected == \E i \in 1 .. Len(prevSkills) :
                          prevSkills[i].skillName = skillName
        keeps(skill) == skill.skillName # skillName
    IN  IF isSelected
        THEN [v EXCEPT !.selectedSkills = SelectSeq(prevSkills, keeps)]
        ELSE IF /\ Len(prevSkills) < MAX_STARTING_SKILLS
                /\ skillName \in scenario.baseSkills
        THEN [v EXCEPT !.selectedSkills =
                           Append(prevSkills, [skillName |-> skillName, level |-> 1])]
        ELSE v

\* startGameRefused without the test of the starting skills
startGameRefused_SkillsOptional(v) ==
    \/ v.user = ""
    \/ v.gameName = ""
    \/ v.remainingPoints # 0

\* the early returns of handleStartGame: nothing is inserted
startGameRefused(v) ==
    \/ v.user = ""
    \/ v.gameName = ""
    \/ v.remainingPoints # 0
    \/ Len(v.selectedSkills) = 0

\* the row handleStartGame inserts into the games table
newGame(v, scenario) ==
    [user_id |-> v.user,
     scenario_id |-> scenario.id,
     \* the insert names no is_active: the column's default is TRUE
     is_active |-> TRUE,
     state |-> [scenarioId |-> scenario.id,
                baseAttributes |-> v.baseAttributeValues,
                selectedCustomizations |-> v.selectedCustomizations,
                dialogueHistory |-> <<[role |-> "dm", text |-> Text("intro", 0)]>>,
                currentLocation |-> scenario.startingPoint,
                inventory |-> <<>>,
                playerSkills |-> v.selectedSkills,
                gameProgression |-> <<>>]]

\* the id the games table gives the inserted row
NewSessionId == "g3"

---------------------------------------------------------------------------
(* Helpers of the actions *)

\* the effective attributes of the state under test
finalAttributesOf(gs) ==
    calculateFinalAttributes(gs.baseAttributes, gs.selectedCustomizations,
                             CHOOSE sc \in allScenarios : sc.id = gs.scenarioId)

\* the rolls the requests are followed for: the two critical rolls and one
\* roll between them
TurnRolls == {1, 13, 20}

\* the dice a call can roll: rollD20 is called only for a skill check
DiceFor(chg) == IF rollsDice(chg) THEN rollD20 \cap TurnRolls ELSE {0}

\* the states the model follows: quantities and levels within the bounds
WithinBounds(gs) ==
    /\ \A i \in 1 .. Len(gs.inventory) : gs.inventory[i].quantity <= MaxQty
    /\ \A i \in 1 .. Len(gs.playerSkills) :
           gs.playerSkills[i].level \in -MaxLevel .. MaxLevel

\* item names of an inventory, skill names of a skill list
ItemNames(inventory) == {inventory[i].item : i \in 1 .. Len(inventory)}
SkillNamesOf(playerSkills) ==
    {playerSkills[i].skillName : i \in 1 .. Len(playerSkills)}

---------------------------------------------------------------------------
(* handleUserAction.  A request runs from one await to the next; each      *)
(* operator below is the code between two awaits, as a function of the     *)
(* request's frame and of what the awaited call gave back.                 *)
(*                                                                         *)
(* Besides the code's own variables a frame records what the request did:  *)
(*   reads, writes  store reads and store updates issued                   *)
(*   events         narration calls issued, returned or failed, in order   *)
(*   failedAt       the narration call whose failure was caught, or ""     *)
(*   rolls          the narration calls whose delta made rollD20 run       *)
(*   snapshot       currentGameState when the pending call was issued      *)
(*   storeBefore    the games table when the request started               *)
(*   result         "returned", or the error thrown, once pc = "done"      *)
(***************************************************************************)

\* the session ids a request may name: g0 is not in the table
RequestIds == Sessions \cup {"g0"}
\* who getUser finds: a user, or "" for no user or an auth error
Callers == Users \cup {""}

\* the three narration calls, in the order of the code
CallOrder == <<"parseIntent", "generateNarrative", "extractDelta">>

\* the value of a variable that has not been assigned
Undefined == [undefined |-> TRUE]

\* the deltas the intent-parsing call returns in the model
IntentDeltas ==
    { NoChanges,
      [NoChanges EXCEPT
          !.itemChanges = <<[item |-> "potion", quantityChange |-> 1]>>,
          !.attributeChanges = <<[attribute |-> "STR", valueChange |-> 1]>>,
          !.requiresDiceRoll = TRUE,
          !.relevantAttribute = "STR",
          !.difficultyClass = [defined |-> TRUE, value |-> 26]],
      [NoChanges EXCEPT
          !.locationUpdate = "cave",
          !.storyFlags = <<[flag |-> "quest", value |-> "started"]>>] }

\* the deltas the delta-extraction call returns in the model
DmDeltas ==
    { NoChanges,
      [NoChanges EXCEPT
          !.itemChanges = <<[item |-> "sword", quantityChange |-> 1]>>,
          !.skillChanges = <<[skillName |-> "lockpick", type |-> "learn",
                              hasValue |-> FALSE, value |-> 0]>>,
          !.locationUpdate = "tower"],
      [NoChanges EXCEPT
          !.itemChanges = <<[item |-> "potion", quantityChange |-> -1]>>,
          !.attributeChanges = <<[attribute |-> "AGI", valueChange |-> -1]>>,
          !.storyFlags = <<[flag |-> "quest", value |-> "done"]>>],
      \* a response that carries the fields of a skill-check request
      [NoChanges EXCEPT
          !.requiresDiceRoll = TRUE,
          !.relevantAttribute = "AGI",
          !.difficultyClass = [defined |-> TRUE, value |-> 10]] }

\* what a structured narration call gives back: it throws, its content is
\* not JSON (JSON.parse throws), or its content parses to a delta
Failures == {[ok |-> FALSE, why |-> "throws"], [ok |-> FALSE, why |-> "badJSON"]}
ParseResponses == Failures \cup {[ok |-> TRUE, delta |-> d] : d \in IntentDeltas}
ExtractResponses == Failures \cup {[ok |-> TRUE, delta |-> d] : d \in DmDeltas}
\* what the narrative call gives back: it throws, or a text that may be empty
NarrativeResponses ==
    {[ok |-> FALSE, why |-> "throws"]}
    \cup {[ok |-> TRUE, content |-> c] : c \in {"", "text"}}

Event(call, what) == [call |-> call, what |-> what]

\* handleUserAction(sessionId, userAction) is called; getUser is awaited
newRequest(n, sessionId, caller, table) ==
    [pc |-> "getUser", n |-> n, sessionId |-> sessionId, caller |-> caller,
     userAction |-> Text("action", n),
     gameData |-> Undefined, currentGameState |-> Undefined,
     scenario |-> Undefined, finalAttributes |-> Undefined,
     parsedAction |-> Undefined, dmChanges |-> Undefined,
     dmNarrative |-> Undefined, userActionNarrativeContext |-> <<>>,
     reads |-> 0, writes |-> 0, events |-> <<>>, failedAt |-> "",
     rolls |-> <<>>,
     snapshot |-> Undefined, storeBefore |-> table, result |-> ""]

\* throw new Error(msg)
threw(f, msg) == [f EXCEPT !.pc = "done", !.result = msg]

\* afterGetUser with the select issued before the login check
afterGetUser_ReadsFirst(f) ==
    IF f.caller = ""
    THEN threw([f EXCEPT !.reads = @ + 1], "Unauthorized: not logged in")
    ELSE [f EXCEPT !.pc = "select", !.reads = @ + 1]

\* after supabase.auth.getUser(): the login check, then the select is issued
afterGetUser(f) ==
    IF f.caller = ""
    THEN threw(f, "Unauthorized: not logged in")
    ELSE [f EXCEPT !.pc = "select", !.reads = @ + 1]

\* pushUser with unshift for push: the entry goes to the front
pushUser_Unshift(gs, userAction) ==
    [gs EXCEPT !.dialogueHistory = <<[role |-> "user", text |-> userAction]>> \o @]

\* pushUser that pushes nothing: the entry is only added with the narrator's
pushUser_Nothing(gs, userAction) == gs

\* currentGameState.dialogueHistory.push(newUserDialogue)
pushUser(gs, userAction) ==
    [gs EXCEPT !.dialogueHistory = Append(@, [role |-> "user", text |-> userAction])]

\* currentGameState.dialogueHistory.push(newDmDialogue)
pushDm(gs, dmNarrative) ==
    [gs EXCEPT !.dialogueHistory = Append(@, [role |-> "dm", text |-> dmNarrative])]

\* an await of a narration call: the call is issued with the state as it is
issue(f, call) ==
    [f EXCEPT !.events = Append(@, Event(call, "issued")),
              !.snapshot = f.currentGameState]

\* afterSelect with the player's entry pushed before the scenario lookup
afterSelect_PushFirst(f, gameError, table) ==
    IF gameError \/ f.sessionId \notin DOMAIN table
    THEN threw(f, "session not found")
    ELSE LET gameData == table[f.sessionId]
         IN  IF gameData.user_id # f.caller
             THEN threw([f EXCEPT !.gameData = gameData],
                        "Unauthorized: no access")
             ELSE IF ~ \E s \in allScenarios : s.id = gameData.scenario_id
             THEN threw([f EXCEPT !.gameData = gameData,
                                  !.currentGameState =
                                      pushUser(gameData.state, f.userAction)],
                        "scenario not found")
             ELSE LET scenario == CHOOSE s \in allScenarios :
                                      s.id = gameData.scenario_id
                      finalAttributes ==
                          calculateFinalAttributes(
                              gameData.state.baseAttributes,
                              gameData.state.selectedCustomizations, scenario)
                  IN  issue([f EXCEPT
                                !.pc = "await1",
                                !.gameData = gameData,
                                !.scenario = scenario,
                                !.finalAttributes = finalAttributes,
                                !.currentGameState =
                                    pushUser(gameData.state, f.userAction)],
                            "parseIntent")

\* after the select: the three checks, the effective attributes, the
\* player's entry, and the intent-parsing call is issued
afterSelect(f, gameError, table) ==
    IF gameError \/ f.sessionId \notin DOMAIN table
    THEN threw(f, "session not found")
    ELSE LET gameData == table[f.sessionId]
         IN  IF gameData.user_id # f.caller
             THEN threw([f EXCEPT !.gameData = gameData],
                        "Unauthorized: no access")
             ELSE IF ~ \E s \in allScenarios : s.id = gameData.scenario_id
             THEN threw([f EXCEPT !.gameData = gameData,
                                  !.currentGameState = gameData.state],
                        "scenario not found")
             ELSE LET scenario == CHOOSE s \in allScenarios :
                                      s.id = gameData.scenario_id
                      finalAttributes ==
                          calculateFinalAttributes(
                              gameData.state.baseAttributes,
                              gameData.state.selectedCustomizations, scenario)
                  IN  issue([f EXCEPT
                                !.pc = "await1",
                                !.gameData = gameData,
                                !.scenario = scenario,
                                !.finalAttributes = finalAttributes,
                                !.currentGameState =
                                    pushUser(gameData.state, f.userAction)],
                            "parseIntent")

\* steps 4 and 5 up to the await of the update: the narrator's entry is
\* pushed and the update of the row is issued
finishTurn(f) ==
    [f EXCEPT !.currentGameState = pushDm(@, f.dmNarrative),
              !.writes = @ + 1,
              !.pc = "awaitSave"]

\* the catch block without a narrator entry: only the update is issued
catchOpenaiError_NoEntry(f, call) ==
    [f EXCEPT !.dmNarrative = Text("placeholder", f.n),
              !.failedAt = call,
              !.events = Append(@, Event(call, "failed")),
              !.writes = @ + 1,
              !.pc = "awaitSave"]

\* the catch block with a rollback: the state goes back to what was loaded
catchOpenaiError_Rollback(f, call) ==
    finishTurn([f EXCEPT !.currentGameState =
                             pushUser(f.gameData.state, f.userAction),
                         !.dmNarrative = Text("placeholder", f.n),
                         !.failedAt = call,
                         !.events = Append(@, Event(call, "failed"))])

\* the catch block that keeps a narrative call 2 has produced
catchOpenaiError_KeepsNarrative(f, call) ==
    finishTurn([f EXCEPT !.dmNarrative = IF f.dmNarrative = Undefined
                                         THEN Text("placeholder", f.n) ELSE @,
                         !.failedAt = call,
                         !.events = Append(@, Event(call, "failed"))])

\* the catch block: the narrative becomes the error placeholder
catchOpenaiError(f, call) ==
    finishTurn([f EXCEPT !.dmNarrative = Text("placeholder", f.n),
                         !.failedAt = call,
                         !.events = Append(@, Event(call, "failed"))])

\* afterParse that stores the recomputed effective attributes as the base
\* attributes of the state
afterParse_StoresFinal(f, resp, diceRollResult) ==
    IF ~ resp.ok
    THEN catchOpenaiError(f, "parseIntent")
    ELSE LET r == applyGameStateChanges(f.currentGameState, resp.delta,
                                        f.finalAttributes, diceRollResult)
             final == calculateFinalAttributes(
                          r.gameState.baseAttributes,
                          r.gameState.selectedCustomizations, f.scenario)
         IN  issue([f EXCEPT
                       !.pc = "await2",
                       !.parsedAction = resp.delta,
                       !.currentGameState =
                           [r.gameState EXCEPT !.baseAttributes = final],
                       !.userActionNarrativeContext = r.narrativeContextPart,
                       !.rolls = IF rollsDice(resp.delta)
                                 THEN Append(@, "parseIntent") ELSE @,
                       !.finalAttributes = final,
                       !.events = Append(@, Event("parseIntent", "returned"))],
                   "generateNarrative")

\* afterParse whose skill check sees the attributes as the delta leaves them
afterParse_ChecksAfter(f, resp, diceRollResult) ==
    IF ~ resp.ok
    THEN catchOpenaiError(f, "parseIntent")
    ELSE LET changed == applyGameStateChanges(f.currentGameState, resp.delta,
                                              f.finalAttributes, diceRollResult)
             final == calculateFinalAttributes(
                          changed.gameState.baseAttributes,
                          changed.gameState.selectedCustomizations, f.scenario)
             r == applyGameStateChanges(f.currentGameState, resp.delta,
                                        final, diceRollResult)
         IN  issue([f EXCEPT
                       !.pc = "await2",
                       !.parsedAction = resp.delta,
                       !.currentGameState = r.gameState,
                       !.userActionNarrativeContext = r.narrativeContextPart,
                       !.rolls = IF rollsDice(resp.delta)
                                 THEN Append(@, "parseIntent") ELSE @,
                       !.finalAttributes = final,
                       !.events = Append(@, Event("parseIntent", "returned"))],
                   "generateNarrative")

\* afterParse that ends the turn when the parsed delta is empty
afterParse_SkipsEmpty(f, resp, diceRollResult) ==
    IF ~ resp.ok
    THEN catchOpenaiError(f, "parseIntent")
    ELSE IF resp.delta = NoChanges
    THEN finishTurn([f EXCEPT
                        !.parsedAction = resp.delta,
                        !.dmNarrative = Text("fallback", f.n),
                        !.events = Append(@, Event("parseIntent", "returned"))])
    ELSE LET r == applyGameStateChanges(f.currentGameState, resp.delta,
                                        f.finalAttributes, diceRollResult)
         IN  issue([f EXCEPT
                       !.pc = "await2",
                       !.parsedAction = resp.delta,
                       !.currentGameState = r.gameState,
                       !.userActionNarrativeContext = r.narrativeContextPart,
                       !.rolls = IF rollsDice(resp.delta)
                                 THEN Append(@, "parseIntent") ELSE @,
                       !.finalAttributes =
                           calculateFinalAttributes(
                               r.gameState.baseAttributes,
                               r.gameState.selectedCustomizations, f.scenario),
                       !.events = Append(@, Event("parseIntent", "returned"))],
                   "generateNarrative")

\* after LLM call 1: the delta is applied, the effective attributes are
\* recomputed and the narrative call is issued
afterParse(f, resp, diceRollResult) ==
    IF ~ resp.ok
    THEN catchOpenaiError(f, "parseIntent")
    ELSE LET r == applyGameStateChanges(f.currentGameState, resp.delta,
                                        f.finalAttributes, diceRollResult)
         IN  issue([f EXCEPT
                       !.pc = "await2",
                       !.parsedAction = resp.delta,
                       !.currentGameState = r.gameState,
                       !.userActionNarrativeContext = r.narrativeContextPart,
                       !.rolls = IF rollsDice(resp.delta)
                                 THEN Append(@, "parseIntent") ELSE @,
                       !.finalAttributes =
                           calculateFinalAttributes(
                               r.gameState.baseAttributes,
                               r.gameState.selectedCustomizations, f.scenario),
                       !.events = Append(@, Event("parseIntent", "returned"))],
                   "generateNarrative")

\* afterNarrative whose continuation never runs: the request stays at the
\* await of call 2
afterNarrative_Waits(f, resp) == f

\* after LLM call 2: the narrative, or the fallback text for an empty one,
\* and the delta-extraction call is issued
afterNarrative(f, resp) ==
    IF ~ resp.ok
    THEN catchOpenaiError(f, "generateNarrative")
    ELSE issue([f EXCEPT
                   !.pc = "await3",
                   !.dmNarrative = IF resp.content = ""
                                   THEN Text("fallback", f.n)
                                   ELSE Text("generated", f.n),
                   !.events = Append(@, Event("generateNarrative", "returned"))],
               "extractDelta")

\* afterExtract with the two deltas in the other order: the intent delta
\* is applied once more, after the narrative-derived one
afterExtract_IntentLast(f, resp, diceRollResult) ==
    IF ~ resp.ok
    THEN catchOpenaiError(f, "extractDelta")
    ELSE LET r == applyGameStateChanges(f.currentGameState, resp.delta,
                                        f.finalAttributes, diceRollResult)
             again == applyGameStateChanges(r.gameState, f.parsedAction,
                                            f.finalAttributes, diceRollResult)
         IN  finishTurn([f EXCEPT
                            !.dmChanges = resp.delta,
                            !.currentGameState = again.gameState,
                            !.rolls = IF rollsDice(resp.delta)
                                      THEN Append(@, "extractDelta") ELSE @,
                            !.events = Append(@, Event("extractDelta", "returned"))])

\* after LLM call 3: the delta is applied, its summary dropped
afterExtract(f, resp, diceRollResult) ==
    IF ~ resp.ok
    THEN catchOpenaiError(f, "extractDelta")
    ELSE LET r == applyGameStateChanges(f.currentGameState, resp.delta,
                                        f.finalAttributes, diceRollResult)
         IN  finishTurn([f EXCEPT
                            !.dmChanges = resp.delta,
                            !.currentGameState = r.gameState,
                            !.rolls = IF rollsDice(resp.delta)
                                      THEN Append(@, "extractDelta") ELSE @,
                            !.events = Append(@, Event("extractDelta", "returned"))])

\* afterUpdate without the test of updateError
afterUpdate_IgnoresError(f, updateError) ==
    [f EXCEPT !.pc = "done", !.result = "returned"]

\* after the update: a failed save throws, otherwise the state is returned
afterUpdate(f, updateError) ==
    IF updateError
    THEN threw(f, "save failed")
    ELSE [f EXCEPT !.pc = "done", !.result = "returned"]

\* updated with a version test: the row is written only if it still holds
\* the state the request loaded
updated_Versioned(table, f, updateError) ==
    IF updateError \/ table[f.sessionId].state # f.gameData.state THEN table
    ELSE [table EXCEPT ![f.sessionId].state = f.currentGameState]

\* the games table after the update of the request: the row is written
\* unless the update failed
updated(table, f, updateError) ==
    IF updateError THEN table
    ELSE [table EXCEPT ![f.sessionId].state = f.currentGameState]

---------------------------------------------------------------------------
(* loadSave (the saves list).  A call runs from one await to the next.     *)
(* Besides the code's own variables a frame records:                       *)
(*   writes   the updates of the table the call has made, in order         *)
(*   alone    no other tab of the same user has written the table since    *)
(*            the call began                                               *)
(*   result   "loaded", or the error shown, once pc = "done"               *)
(***************************************************************************)

\* a first update that matches no row
resetActive_NoRow(table, user) == table

\* update({is_active: false}).eq("user_id", user.id), under the policy that
\* lets a user update the user's own rows only
resetActive(table, user) ==
    [g \in DOMAIN table |->
        IF table[g].user_id = user
        THEN [table[g] EXCEPT !.is_active = FALSE] ELSE table[g]]

\* update({is_active: true}).eq("id", id), under the same policy: no row
\* matches an id that is not in the table or is another user's
activateUpdate(table, user, id) ==
    IF id \in DOMAIN table /\ table[id].user_id = user
    THEN [table EXCEPT ![id].is_active = TRUE] ELSE table

\* loadSave(id) is called: without a user it ends at once
loadSave(id, user) ==
    IF user = ""
    THEN [pc |-> "done", id |-> id, user |-> user, writes |-> <<>>,
          alone |-> TRUE, result |-> "not logged in"]
    ELSE [pc |-> "awaitReset", id |-> id, user |-> user, writes |-> <<>>,
          alone |-> TRUE, result |-> ""]

\* after the first update
afterReset(f, resetError) ==
    IF resetError
    THEN [f EXCEPT !.pc = "done", !.result = "reset failed"]
    ELSE [f EXCEPT !.pc = "awaitActivate", !.writes = Append(@, "reset")]

\* after the second update
afterActivate(f, updateError) ==
    IF updateError
    THEN [f EXCEPT !.pc = "done", !.result = "activate failed"]
    ELSE [f EXCEPT !.pc = "awaitRefresh", !.writes = Append(@, "activate")]

\* after loadUserAndSaves(), which catches its own errors: the game opens
afterRefresh(f) == [f EXCEPT !.pc = "done", !.result = "loaded"]

\* the frames of the other tabs after tab p of user has written the table
otherTabsSeeWrite(frames, p, user) ==
    [q \in DOMAIN frames |->
        IF q # p /\ frames[q].user = user /\ frames[q].pc # "idle"
        THEN [frames[q] EXCEPT !.alone = FALSE] ELSE frames[q]]

\* the frame of a tab in which loadSave has not been called
IdleLoad == [loadSave("g0", "") EXCEPT !.pc = "idle", !.result = ""]

---------------------------------------------------------------------------
(* The initial state: the games table after character creation *)

Procs == {1, 2}

\* the frame of a request that has not been made
IdleTurn == [newRequest(0, "g0", "", InitialStore) EXCEPT !.pc = "idle"]

Init ==
    /\ gameState = InitialGameState
    /\ observed = {}
    /\ store = InitialStore
    /\ turn = [p \in Procs |-> IdleTurn]
    /\ turnsStarted = 0
    /\ lastSaved = [g \in Sessions |-> 0]
    /\ view = initialView(scenarioSc2, "alice", "hero", FALSE)
    /\ loads = [p \in Procs |-> IdleLoad]

---------------------------------------------------------------------------
(* handleUserAction: the actions of request p *)

StartTurn(p) ==
    /\ turn[p].pc \in {"idle", "done"}
    /\ turnsStarted < MaxTurns
    /\ \E sessionId \in RequestIds, caller \in Callers :
           turn' = [turn EXCEPT
                       ![p] = newRequest(turnsStarted + 1, sessionId, caller, store)]
    /\ turnsStarted' = turnsStarted + 1
    /\ UNCHANGED <<gameState, observed, store, lastSaved, view, loads>>

GetUserReturns(p) ==
    /\ turn[p].pc = "getUser"
    /\ turn' = [turn EXCEPT ![p] = afterGetUser(@)]
    /\ UNCHANGED <<gameState, observed, store, turnsStarted,
                   lastSaved, view, loads>>

SelectReturns(p) ==
    /\ turn[p].pc = "select"
    /\ \E gameError \in BOOLEAN :
           turn' = [turn EXCEPT ![p] = afterSelect(@, gameError, store)]
    /\ UNCHANGED <<gameState, observed, store, turnsStarted,
                   lastSaved, view, loads>>

ParseReturns(p) ==
    /\ turn[p].pc = "await1"
    /\ \E resp \in ParseResponses :
           \E diceRollResult \in (IF resp.ok THEN DiceFor(resp.delta) ELSE {0}) :
               turn' = [turn EXCEPT ![p] = afterParse(@, resp, diceRollResult)]
    /\ UNCHANGED <<gameState, observed, store, turnsStarted,
                   lastSaved, view, loads>>

NarrativeReturns(p) ==
    /\ turn[p].pc = "await2"
    /\ \E resp \in NarrativeResponses :
           turn' = [turn EXCEPT ![p] = afterNarrative(@, resp)]
    /\ UNCHANGED <<gameState, observed, store, turnsStarted,
                   lastSaved, view, loads>>

ExtractReturns(p) ==
    /\ turn[p].pc = "await3"
    /\ \E resp \in ExtractResponses :
           \E diceRollResult \in (IF resp.ok THEN DiceFor(resp.delta) ELSE {0}) :
               turn' = [turn EXCEPT ![p] = afterExtract(@, resp, diceRollResult)]
    /\ UNCHANGED <<gameState, observed, store, turnsStarted,
                   lastSaved, view, loads>>

UpdateReturns(p) ==
    /\ turn[p].pc = "awaitSave"
    /\ \E updateError \in BOOLEAN :
           /\ store' = updated(store, turn[p], updateError)
           /\ turn' = [turn EXCEPT ![p] = afterUpdate(@, updateError)]
           /\ lastSaved' = IF updateError THEN lastSaved
                           ELSE [lastSaved EXCEPT ![turn[p].sessionId] = turn[p].n]
    /\ UNCHANGED <<gameState, observed, turnsStarted, view, loads>>

\* one step of request p
Turn(p) ==
    \/ StartTurn(p)
    \/ GetUserReturns(p)
    \/ SelectReturns(p)
    \/ ParseReturns(p)
    \/ NarrativeReturns(p)
    \/ ExtractReturns(p)
    \/ UpdateReturns(p)

\* requests made one after the other
Next == Turn(1)

Spec == Init /\ [][Next]_vars

\* an external call of request p returns or fails
Returns(p) ==
    \/ GetUserReturns(p)
    \/ SelectReturns(p)
    \/ ParseReturns(p)
    \/ NarrativeReturns(p)
    \/ ExtractReturns(p)
    \/ UpdateReturns(p)

\* requests made one after the other, every await of which ends
SpecLive == Init /\ [][Next]_vars /\ WF_vars(Returns(1))

---------------------------------------------------------------------------
(* applyGameStateChanges called again and again on one GameState *)

\* a call whose delta holds item changes only
ApplyItemChanges ==
    \E cs \in ChangeLists(ItemChange, ListItemChange) :
        LET chg == [NoChanges EXCEPT !.itemChanges = cs]
            r == applyGameStateChanges(gameState, chg,
                                       finalAttributesOf(gameState), 0)
        IN  /\ WithinBounds(r.gameState)
            /\ gameState' = r.gameState
            /\ observed' =
                   IF ItemNames(gameState.inventory)
                          \ ItemNames(r.gameState.inventory) # {}
                   THEN {"removed"} ELSE {}
            /\ UNCHANGED <<store, turn, turnsStarted, lastSaved, view, loads>>

NextItems == ApplyItemChanges

SpecItems == Init /\ [][NextItems]_vars

\* a call whose delta holds skill changes only
ApplySkillChanges ==
    \E cs \in ChangeLists(SkillChange, ListSkillChange) :
        LET chg == [NoChanges EXCEPT !.skillChanges = cs]
            r == applyGameStateChanges(gameState, chg,
                                       finalAttributesOf(gameState), 0)
        IN  /\ WithinBounds(r.gameState)
            /\ gameState' = r.gameState
            /\ observed' =
                   IF /\ Len(cs) >= 2
                      /\ cs[1].type = "learn" /\ cs[2].type = "learn"
                      /\ cs[1].skillName = cs[2].skillName
                      /\ cs[1].skillName \notin SkillNamesOf(gameState.playerSkills)
                   THEN {"learnedTwice"} ELSE {}
            /\ UNCHANGED <<store, turn, turnsStarted, lastSaved, view, loads>>

NextSkills == ApplySkillChanges

SpecSkills == Init /\ [][NextSkills]_vars

---------------------------------------------------------------------------
(* applyGameStateChanges called with skill-check requests and with empty   *)
(* deltas, between attribute changes that move the effective attributes    *)

\* the difficulty classes of the requests
DifficultyClasses == {5, 25}
\* the attributes a request may name: LUCK is no attribute of the player
CheckedAttributes == Attributes \cup {"LUCK"}

\* the deltas that hold a skill-check request and nothing else
SkillCheckDeltas ==
    {[NoChanges EXCEPT !.requiresDiceRoll = TRUE,
                       !.relevantAttribute = a,
                       !.difficultyClass = [defined |-> TRUE, value |-> dc]] :
        a \in CheckedAttributes, dc \in DifficultyClasses}

\* the deltas that ask for nothing.  {} and a delta whose lists are all
\* empty are both NoChanges: the code tests (list && list.length > 0).  The
\* other two hold parts of a skill-check request that the last if rejects.
EmptyDeltas ==
    {NoChanges,
     [NoChanges EXCEPT !.relevantAttribute = "STR",
                       !.difficultyClass = [defined |-> TRUE, value |-> 5]],
     [NoChanges EXCEPT !.requiresDiceRoll = TRUE]}

\* the single attribute changes that move the attributes
ShiftChanges == [attribute : Attributes, valueChange : {-1, 1}]

\* a call whose delta holds one attribute change
ApplyAttributeChange ==
    \E c \in ShiftChanges :
        LET chg == [NoChanges EXCEPT !.attributeChanges = <<c>>]
            r == applyGameStateChanges(gameState, chg,
                                       finalAttributesOf(gameState), 0)
        IN  /\ \A a \in Attributes :
                   /\ r.gameState.baseAttributes[a]
                          >= InitialGameState.baseAttributes[a] - MaxShift
                   /\ r.gameState.baseAttributes[a]
                          <= InitialGameState.baseAttributes[a] + MaxShift
            /\ gameState' = r.gameState
            /\ observed' = {}
            /\ UNCHANGED <<store, turn, turnsStarted, lastSaved, view, loads>>

\* a call whose delta holds a skill-check request only; rollD20 is called
ApplySkillCheck ==
    \E chg \in SkillCheckDeltas, diceRollResult \in rollD20 :
        LET r == applyGameStateChanges(gameState, chg,
                                       finalAttributesOf(gameState),
                                       diceRollResult)
        IN  /\ gameState' = r.gameState
            /\ observed' = {[delta |-> "skillCheck",
                             summary |-> r.narrativeContextPart]}
            /\ UNCHANGED <<store, turn, turnsStarted, lastSaved, view, loads>>

\* a call whose delta asks for nothing
ApplyEmptyDelta ==
    \E chg \in EmptyDeltas :
        LET r == applyGameStateChanges(gameState, chg,
                                       finalAttributesOf(gameState), 0)
        IN  /\ gameState' = r.gameState
            /\ observed' = {[delta |-> "empty",
                             summary |-> r.narrativeContextPart]}
            /\ UNCHANGED <<store, turn, turnsStarted, lastSaved, view, loads>>

NextDice ==
    \/ ApplyAttributeChange
    \/ ApplySkillCheck
    \/ ApplyEmptyDelta

SpecDice == Init /\ [][NextDice]_vars

---------------------------------------------------------------------------
(* calculateFinalAttributes called on a state of scenario sc2 whose base   *)
(* attributes and selections are drawn at the start, between changes of    *)
(* one selection (handleCustomizationChange)                               *)

\* the base attribute maps: an attribute may be missing, and LUCK may be there
BaseAttributeChoices ==
    UNION {[D -> {5, 7}] : D \in {{"STR"}, {"STR", "AGI"}, {"STR", "AGI", "LUCK"}}}

\* the category keys a selection may name: faction is no category of sc2
CategoryKeys == {"role", "origin", "faction"}
\* the option keys a selection may hold: ghost is no option of any category
OptionKeys ==
    [role |-> {"warrior", "rogue", "ghost"},
     origin |-> {"noble", "farmer", "ghost"},
     faction |-> {"ghost"}]

\* the selections: any subset of the category keys, each with one of its keys
CustomizationChoices ==
    UNION {{f \in [D -> UNION {OptionKeys[c] : c \in CategoryKeys}] :
               \A c \in D : f[c] \in OptionKeys[c]} :
           D \in SUBSET CategoryKeys}

InitAttrs ==
    /\ \E b \in BaseAttributeChoices, c \in CustomizationChoices :
           gameState = [InitialGameState EXCEPT !.scenarioId = "sc2",
                                                !.baseAttributes = b,
                                                !.selectedCustomizations = c]
    /\ observed = {}
    /\ store = InitialStore
    /\ turn = [p \in Procs |-> IdleTurn]
    /\ turnsStarted = 0
    /\ lastSaved = [g \in Sessions |-> 0]
    /\ view = initialView(scenarioSc2, "alice", "hero", FALSE)
    /\ loads = [p \in Procs |-> IdleLoad]

\* calculateFinalAttributes is called on the state
Resolve ==
    /\ observed' = {[delta |-> "resolved",
                     finalAttrs |-> calculateFinalAttributes(
                                        gameState.baseAttributes,
                                        gameState.selectedCustomizations,
                                        scenarioSc2)]}
    /\ UNCHANGED <<gameState, store, turn, turnsStarted,
                   lastSaved, view, loads>>

\* setSelectedCustomizations((prev) => ({...prev, [categoryKey]: optionKey}))
handleCustomizationChange(prev, categoryKey, optionKey) ==
    MapSet(prev, categoryKey, optionKey)

\* the selection of one category is changed
ChangeSelection ==
    \E categoryKey \in CategoryKeys :
        \E optionKey \in OptionKeys[categoryKey] :
            /\ gameState' =
                   [gameState EXCEPT
                       !.selectedCustomizations =
                           handleCustomizationChange(@, categoryKey, optionKey)]
            /\ observed' = {[delta |-> "changed",
                             categoryKey |-> categoryKey,
                             previous |-> gameState.selectedCustomizations]}
            /\ UNCHANGED <<store, turn, turnsStarted, lastSaved, view, loads>>

NextAttrs ==
    \/ Resolve
    \/ ChangeSelection

SpecAttrs == InitAttrs /\ [][NextAttrs]_vars

---------------------------------------------------------------------------
(* handleUserAction: requests that run at the same time.  Each request is  *)
(* a server action of its own; their awaits interleave in any order.       *)

\* one step of request p, where p makes one request, for a session of the
\* table and as its owner
TurnOnce(p) ==
    \/ /\ turn[p].pc = "idle"
       /\ StartTurn(p)
       /\ turn'[p].sessionId \in DOMAIN store
       /\ turn'[p].caller = store[turn'[p].sessionId].user_id
    \/ GetUserReturns(p)
    \/ SelectReturns(p)
    \/ ParseReturns(p)
    \/ NarrativeReturns(p)
    \/ ExtractReturns(p)
    \/ UpdateReturns(p)

NextConc == \E p \in Procs : TurnOnce(p)

SpecConc == Init /\ [][NextConc]_vars

---------------------------------------------------------------------------
(* GameInitView: the user allocates points, chooses options and skills     *)
(* and starts the game                                                     *)

\* the scenario the view was opened for
viewScenario == CHOOSE sc \in allScenarios : sc.id = view.scenarioId

\* who is logged in and the name typed: one of them may be missing
InitNew ==
    /\ gameState = InitialGameState
    /\ observed = {}
    /\ store = InitialStore
    /\ turn = [p \in Procs |-> IdleTurn]
    /\ turnsStarted = 0
    /\ lastSaved = [g \in Sessions |-> 0]
    /\ \E who \in {<<"alice", "hero">>, <<"", "hero">>, <<"alice", "">>},
          strictMode \in BOOLEAN :
           view = initialView(scenarioSc2, who[1], who[2], strictMode)
    /\ loads = [p \in Procs |-> IdleLoad]

\* a + or - button of an attribute is clicked
AttributeClicked ==
    /\ NewSessionId \notin DOMAIN store
    /\ \E attrName \in viewScenario.attributes, change \in {-1, 1} :
           view' = handleAttributeChange(view, attrName, change)
    /\ UNCHANGED <<gameState, observed, store, turn,
                   turnsStarted, lastSaved, loads>>

\* an option of a category is clicked; observed keeps the last option the
\* user clicked in each category
CustomizationClicked ==
    /\ NewSessionId \notin DOMAIN store
    /\ \E categoryKey \in DOMAIN viewScenario.playerCustomizations :
           \E optionKey \in DOMAIN viewScenario.playerCustomizations[categoryKey] :
               /\ view' = [view EXCEPT
                               !.selectedCustomizations =
                                   handleCustomizationChange(@, categoryKey,
                                                             optionKey)]
               /\ observed' =
                      {o \in observed : o.categoryKey # categoryKey}
                      \cup {[categoryKey |-> categoryKey, optionKey |-> optionKey]}
    /\ UNCHANGED <<gameState, store, turn, turnsStarted, lastSaved, loads>>

\* a skill is clicked
SkillClicked ==
    /\ NewSessionId \notin DOMAIN store
    /\ \E skillName \in viewScenario.baseSkills :
           view' = handleSkillToggle(view, viewScenario, skillName)
    /\ UNCHANGED <<gameState, observed, store, turn,
                   turnsStarted, lastSaved, loads>>

\* the start button is clicked and handleStartGame gets to the insert
StartGameClicked ==
    /\ NewSessionId \notin DOMAIN store
    /\ ~ startGameRefused(view)
    /\ \E dbError \in BOOLEAN :
           store' = IF dbError THEN store
                    ELSE MapSet(store, NewSessionId, newGame(view, viewScenario))
    /\ UNCHANGED <<gameState, observed, turn, turnsStarted,
                   lastSaved, view, loads>>

NextNew ==
    \/ AttributeClicked
    \/ CustomizationClicked
    \/ SkillClicked
    \/ StartGameClicked

SpecNew == InitNew /\ [][NextNew]_vars

---------------------------------------------------------------------------
(* applyGameStateChanges called with deltas as JSON.parse gives them *)

\* the deltas of the calls: five with a null element or with an attribute
\* the player does not have, next to other fields, and four well-formed ones
ParsedJsonDeltas ==
    { [NoChanges EXCEPT
          !.itemChanges = <<[item |-> "potion", quantityChange |-> 1], Null>>,
          !.locationUpdate = "cave"],
      [NoChanges EXCEPT
          !.itemChanges = <<Null>>,
          !.attributeChanges = <<[attribute |-> "STR", valueChange |-> 1]>>],
      [NoChanges EXCEPT
          !.skillChanges = <<Null, [skillName |-> "lockpick", type |-> "learn",
                                    hasValue |-> FALSE, value |-> 0]>>,
          !.storyFlags = <<[flag |-> "quest", value |-> "started"]>>],
      [NoChanges EXCEPT
          !.storyFlags = <<[flag |-> "quest", value |-> "done"], Null>>],
      [NoChanges EXCEPT
          !.attributeChanges = <<[attribute |-> "LUCK", valueChange |-> 1]>>,
          !.locationUpdate = "tower"],
      [NoChanges EXCEPT
          !.itemChanges = <<[item |-> "sword", quantityChange |-> 1]>>],
      [NoChanges EXCEPT
          !.itemChanges = <<[item |-> "potion", quantityChange |-> -1]>>,
          !.attributeChanges = <<[attribute |-> "STR", valueChange |-> -1]>>],
      [NoChanges EXCEPT
          !.skillChanges = <<[skillName |-> "stealth", type |-> "forget",
                              hasValue |-> FALSE, value |-> 0]>>,
          !.locationUpdate = "start"],
      [NoChanges EXCEPT
          !.attributeChanges = <<[attribute |-> "AGI", valueChange |-> 1]>>,
          !.storyFlags = <<[flag |-> "door", value |-> "open"]>>] }

\* the value an attribute starts from in this model: 0 for a new attribute
startValue(a) ==
    IF a \in DOMAIN InitialGameState.baseAttributes
    THEN InitialGameState.baseAttributes[a] ELSE 0

\* a call with one of the deltas; observed keeps the call: the state
\* before, the delta and whether the call threw
ApplyParsedJson ==
    \E chg \in ParsedJsonDeltas :
        LET r == applyParsedJson(gameState, chg, finalAttributesOf(gameState), 0)
        IN  /\ WithinBounds(r.gameState)
            /\ \A a \in DOMAIN r.gameState.baseAttributes :
                   /\ r.gameState.baseAttributes[a] >= startValue(a) - MaxShift
                   /\ r.gameState.baseAttributes[a] <= startValue(a) + MaxShift
            /\ gameState' = r.gameState
            /\ observed' = {[delta |-> "parsedJson", changes |-> chg,
                             before |-> gameState, threw |-> r.threw]}
            /\ UNCHANGED <<store, turn, turnsStarted, lastSaved, view, loads>>

NextJson == ApplyParsedJson

SpecJson == Init /\ [][NextJson]_vars

---------------------------------------------------------------------------
(* loadSave called in two browser tabs, whose awaits interleave *)

\* the games table of the saves list: two games of alice and one of bob,
\* each active or not
SavesStores ==
    {[g \in Sessions \cup {"b1"} |->
         [user_id |-> IF g = "b1" THEN "bob" ELSE "alice",
          scenario_id |-> "sc1",
          is_active |-> act[g],
          state |-> InitialGameState]] :
        act \in [Sessions \cup {"b1"} -> BOOLEAN]}

\* the ids a call may be given: the rows the saves list shows to the user
LoadIds(user) == {g \in DOMAIN store : store[g].user_id = user}

InitSaves ==
    /\ gameState = InitialGameState
    /\ observed = {}
    /\ store \in SavesStores
    /\ turn = [p \in Procs |-> IdleTurn]
    /\ turnsStarted = 0
    /\ lastSaved = [g \in Sessions |-> 0]
    /\ view = initialView(scenarioSc2, "alice", "hero", FALSE)
    /\ loads = [p \in Procs |-> IdleLoad]

LoadSaveCalled(p) ==
    /\ loads[p].pc \in {"idle", "done"}
    /\ \E user \in Callers :
           \E id \in LoadIds(user) :
               loads' = [loads EXCEPT ![p] = loadSave(id, user)]
    /\ UNCHANGED <<gameState, observed, store, turn, turnsStarted,
                   lastSaved, view>>

ResetReturns(p) ==
    /\ loads[p].pc = "awaitReset"
    /\ \E resetError \in BOOLEAN :
           /\ store' = IF resetError THEN store
                       ELSE resetActive(store, loads[p].user)
           /\ loads' =
                  [(IF resetError THEN loads
                    ELSE otherTabsSeeWrite(loads, p, loads[p].user))
                   EXCEPT ![p] = afterReset(@, resetError)]
    /\ UNCHANGED <<gameState, observed, turn, turnsStarted, lastSaved, view>>

ActivateReturns(p) ==
    /\ loads[p].pc = "awaitActivate"
    /\ \E updateError \in BOOLEAN :
           /\ store' = IF updateError THEN store
                       ELSE activateUpdate(store, loads[p].user, loads[p].id)
           /\ loads' =
                  [(IF updateError THEN loads
                    ELSE otherTabsSeeWrite(loads, p, loads[p].user))
                   EXCEPT ![p] = afterActivate(@, updateError)]
    /\ UNCHANGED <<gameState, observed, turn, turnsStarted, lastSaved, view>>

RefreshReturns(p) ==
    /\ loads[p].pc = "awaitRefresh"
    /\ loads' = [loads EXCEPT ![p] = afterRefresh(@)]
    /\ UNCHANGED <<gameState, observed, store, turn, turnsStarted,
                   lastSaved, view>>

NextSaves ==
    \E p \in Procs :
        \/ LoadSaveCalled(p)
        \/ ResetReturns(p)
        \/ ActivateReturns(p)
        \/ RefreshReturns(p)

SpecSaves == InitSaves /\ [][NextSaves]_vars

---------------------------------------------------------------------------
(* applyGameStateChanges called with one item change or one skill change;  *)
(* observed holds the change of the last call                              *)

ApplyOneItemChange ==
    \E c \in ItemChange :
        LET chg == [NoChanges EXCEPT !.itemChanges = <<c>>]
            r == applyGameStateChanges(gameState, chg,
                                       finalAttributesOf(gameState), 0)
        IN  /\ WithinBounds(r.gameState)
            /\ gameState' = r.gameState
            /\ observed' = {[delta |-> "itemChange",
                             name |-> c.item,
                             type |-> "",
                             hasValue |-> TRUE,
                             value |-> c.quantityChange]}
            /\ UNCHANGED <<store, turn, turnsStarted, lastSaved, view, loads>>

ApplyOneSkillChange ==
    \E c \in SkillChange :
        LET chg == [NoChanges EXCEPT !.skillChanges = <<c>>]
            r == applyGameStateChanges(gameState, chg,
                                       finalAttributesOf(gameState), 0)
        IN  /\ WithinBounds(r.gameState)
            /\ gameState' = r.gameState
            /\ observed' = {[delta |-> "skillChange",
                             name |-> c.skillName,
                             type |-> c.type,
                             hasValue |-> c.hasValue,
                             value |-> c.value]}
            /\ UNCHANGED <<store, turn, turnsStarted, lastSaved, view, loads>>

NextItemChange == ApplyOneItemChange

SpecItemChange == Init /\ [][NextItemChange]_vars

NextSkillChange == ApplyOneSkillChange

SpecSkillChange == Init /\ [][NextSkillChange]_vars

---------------------------------------------------------------------------
\* C1: no inventory entry of the state has quantity <= 0 once a call of
\* applyGameStateChanges has returned, whatever item changes the calls made.
C1_InventoryPositive ==
    \A i \in 1 .. Len(gameState.inventory) : gameState.inventory[i].quantity > 0

\* a call has taken an entry out of a non-empty inventory and left another
C1_Witness ==
    /\ "removed" \in observed
    /\ Len(gameState.inventory) > 0

\* C2: the skill list never holds two entries of one skill name, whatever
\* skill changes the calls made.
C2_SkillNamesUnique ==
    \A i, j \in 1 .. Len(gameState.playerSkills) :
        gameState.playerSkills[i].skillName = gameState.playerSkills[j].skillName
            => i = j

\* one delta has learned the same absent skill twice, and the list holds it once
C2_Witness ==
    /\ "learnedTwice" \in observed
    /\ Len(gameState.playerSkills) = 2

---------------------------------------------------------------------------
(* What the claims about handleUserAction speak of *)

\* the request got past the checks: its player's entry was pushed
PassedChecks(p) == turn[p].events # <<>>
\* the request returned the updated state
Completed(p) == turn[p].pc = "done" /\ turn[p].result = "returned"
\* the dialogue history the request loaded, and the one now in the store
LoadedHistory(p) == turn[p].gameData.state.dialogueHistory
StoredHistory(p) == store[turn[p].sessionId].state.dialogueHistory
\* the entries of the request
UserEntry(p) == [role |-> "user", text |-> turn[p].userAction]
PlaceholderEntry(p) == [role |-> "dm", text |-> Text("placeholder", turn[p].n)]
\* the errors of the checks made before anything is changed
AuthErrors == {"Unauthorized: not logged in", "Unauthorized: no access"}
NotFoundErrors == {"session not found", "scenario not found"}

\* C3: after a completed turn (full or degraded) the stored history is the
\* loaded history, unchanged and in order, followed by exactly two entries:
\* the player's action, then one narrator entry.
C3_HistoryGrowsByTwo ==
    \A p \in Procs :
        Completed(p) =>
            LET old == LoadedHistory(p)
                new == StoredHistory(p)
            IN  /\ Len(new) = Len(old) + 2
                /\ SubSeq(new, 1, Len(old)) = old
                /\ new[Len(old) + 1] = UserEntry(p)
                /\ new[Len(old) + 2].role = "dm"

\* a degraded second turn has been completed on a history of three entries
C3_Witness ==
    \E p \in Procs :
        /\ Completed(p)
        /\ turn[p].failedAt # ""
        /\ Len(LoadedHistory(p)) = 3

\* C4 as claimed: when intent parsing or narrative generation fails, the
\* history grows by the player's entry only.
C4_AsClaimed ==
    \A p \in Procs :
        (Completed(p) /\ turn[p].failedAt \in {"parseIntent", "generateNarrative"})
            => StoredHistory(p) = LoadedHistory(p) \o <<UserEntry(p)>>

\* C4 as amended: when intent parsing or narrative generation fails, the
\* history grows by two entries, the player's and a narrator entry that
\* holds the error placeholder.
C4_PlaceholderAdded ==
    \A p \in Procs :
        (Completed(p) /\ turn[p].failedAt \in {"parseIntent", "generateNarrative"})
            => StoredHistory(p) =
                   LoadedHistory(p) \o <<UserEntry(p), PlaceholderEntry(p)>>

\* a turn whose narrative call failed has been completed
C4_Witness ==
    \E p \in Procs :
        Completed(p) /\ turn[p].failedAt = "generateNarrative"

C6_AsClaimed ==
    \A p \in Procs :
        (turn[p].pc = "done" /\ turn[p].result \in AuthErrors) =>
            /\ turn[p].reads = 0
            /\ turn[p].writes = 0
            /\ turn[p].events = <<>>

\* C6 as amended: a caller who is not logged in is rejected before any
\* store read; a caller who is not the owner is rejected after the one read
\* of the row that names the owner; in both cases nothing is changed, no
\* narration call is made and no update is issued.
C6_RejectedBeforeMutation ==
    \A p \in Procs :
        (turn[p].pc = "done" /\ turn[p].result \in AuthErrors) =>
            /\ turn[p].reads =
                   (IF turn[p].result = "Unauthorized: not logged in" THEN 0 ELSE 1)
            /\ turn[p].writes = 0
            /\ turn[p].events = <<>>
            /\ turn[p].currentGameState = Undefined
            /\ store = turn[p].storeBefore

\* bob has been refused alice's game, after the row was read
C6_Witness ==
    \E p \in Procs :
        /\ turn[p].pc = "done"
        /\ turn[p].result = "Unauthorized: no access"
        /\ turn[p].caller = "bob"
        /\ turn[p].reads = 1

\* C7: a session that is not in the store, or whose scenario is not in the
\* catalog, ends the call with an error: no narration call, no change of
\* the dialogue history and no store write.
C7_NotFoundChangesNothing ==
    \A p \in Procs :
        (turn[p].pc = "done" /\ turn[p].result \in NotFoundErrors) =>
            /\ turn[p].events = <<>>
            /\ turn[p].writes = 0
            /\ store = turn[p].storeBefore
            /\ (turn[p].result = "scenario not found" =>
                   turn[p].currentGameState = turn[p].gameData.state)

\* the owner's request for a game of a removed scenario has been refused
C7_Witness ==
    \E p \in Procs :
        /\ turn[p].pc = "done"
        /\ turn[p].result = "scenario not found"
        /\ turn[p].sessionId = "g2"

\* the three outcomes of a call that has ended
OutcomeFull(p) ==
    /\ turn[p].result = "returned"
    /\ turn[p].failedAt = ""
    /\ turn[p].currentGameState.dialogueHistory[
           Len(turn[p].currentGameState.dialogueHistory)].text.kind
               \in {"generated", "fallback"}
    /\ store[turn[p].sessionId].state = turn[p].currentGameState
OutcomeDegraded(p) ==
    /\ turn[p].result = "returned"
    /\ turn[p].failedAt # ""
    /\ turn[p].currentGameState.dialogueHistory[
           Len(turn[p].currentGameState.dialogueHistory)] = PlaceholderEntry(p)
    /\ store[turn[p].sessionId].state = turn[p].currentGameState
OutcomeThrown(p) ==
    /\ turn[p].result \in AuthErrors \cup NotFoundErrors \cup {"save failed"}
    /\ store = turn[p].storeBefore

\* C8: a call that has ended has exactly one of three outcomes: it returned
\* the state with the narrative of the narrative call and that state is
\* stored; it returned the state with the placeholder and that state is
\* stored; or it threw and the store is as it was before the call (so also
\* after a failed final save).
C8_ThreeOutcomes ==
    \A p \in Procs :
        turn[p].pc = "done" =>
            /\ OutcomeFull(p) \/ OutcomeDegraded(p) \/ OutcomeThrown(p)
            /\ ~ (OutcomeFull(p) /\ OutcomeDegraded(p))
            /\ ~ (OutcomeFull(p) /\ OutcomeThrown(p))
            /\ ~ (OutcomeDegraded(p) /\ OutcomeThrown(p))

\* the final save failed after the turn had changed the state in memory
C8_Witness ==
    \E p \in Procs :
        /\ turn[p].pc = "done"
        /\ turn[p].result = "save failed"
        /\ turn[p].currentGameState.inventory # <<>>
        /\ store[turn[p].sessionId].state.inventory = <<>>

\* C9: the narration calls are issued in the order of CallOrder, each after
\* the one before it has returned, never two in flight; a call that
\* returned is followed by the next one, also after an empty delta.
C9_CallsInOrder ==
    \A p \in Procs :
        LET ev == turn[p].events
        IN  /\ Len(ev) <= 2 * Len(CallOrder)
            /\ \A i \in 1 .. Len(ev) :
                   /\ ev[i].call = CallOrder[(i + 1) \div 2]
                   /\ (i % 2 = 1 => ev[i].what = "issued")
                   /\ (i % 2 = 0 => ev[i].what \in {"returned", "failed"})
                   /\ (ev[i].what = "failed" => i = Len(ev))
                   /\ (ev[i].what = "returned" /\ i < 2 * Len(CallOrder)
                          => Len(ev) > i)
            /\ (Len(ev) % 2 = 1 <=>
                   turn[p].pc \in {"await1", "await2", "await3"})

\* all three calls were made in a turn whose intent delta was empty
C9_Witness ==
    \E p \in Procs :
        /\ turn[p].parsedAction = NoChanges
        /\ Len(turn[p].events) = 2 * Len(CallOrder)
        /\ turn[p].events[Len(turn[p].events)].what = "returned"

\* C10 as claimed: the player's entry is in the history before the first
\* narration call and, whichever later step fails, in the stored history
\* after the turn.
C10_AsClaimed ==
    \A p \in Procs :
        PassedChecks(p) =>
            /\ turn[p].currentGameState.dialogueHistory[Len(LoadedHistory(p)) + 1]
                   = UserEntry(p)
            /\ (turn[p].pc = "done" =>
                   /\ Len(StoredHistory(p)) > Len(LoadedHistory(p))
                   /\ StoredHistory(p)[Len(LoadedHistory(p)) + 1] = UserEntry(p))

\* C10 as amended: the player's entry is in the history in memory before
\* the first narration call and stays whichever narration call fails; it is
\* in the stored history when the final save succeeds, and the stored
\* history is the loaded one when the final save fails.
C10_ActionKeptUnlessSaveFails ==
    \A p \in Procs :
        PassedChecks(p) =>
            /\ Len(turn[p].currentGameState.dialogueHistory)
                   > Len(LoadedHistory(p))
            /\ SubSeq(turn[p].currentGameState.dialogueHistory,
                      1, Len(LoadedHistory(p))) = LoadedHistory(p)
            /\ turn[p].currentGameState.dialogueHistory[Len(LoadedHistory(p)) + 1]
                   = UserEntry(p)
            /\ (turn[p].result = "returned" =>
                   StoredHistory(p)[Len(LoadedHistory(p)) + 1] = UserEntry(p))
            /\ (turn[p].result = "save failed" =>
                   StoredHistory(p) = LoadedHistory(p))

\* the intent parsing failed and the player's entry is in the store
C10_Witness ==
    \E p \in Procs :
        /\ Completed(p)
        /\ turn[p].failedAt = "parseIntent"
        /\ StoredHistory(p)[Len(LoadedHistory(p)) + 1] = UserEntry(p)


---------------------------------------------------------------------------
(* What the claims about the skill check speak of *)

\* the skill checks the last call reported in its summary
ReportedChecks ==
    {o.summary[i] : o \in {x \in observed : x.delta = "skillCheck"},
                    i \in 1 .. 1}
\* the effective value of an attribute, 0 for one the player does not have
EffectiveValue(a) ==
    IF a \in DOMAIN finalAttributesOf(gameState)
    THEN finalAttributesOf(gameState)[a] ELSE 0

\* C11: a roll of 1 is a failure and a roll of 20 is a success, whatever
\* the attribute value and the difficulty class.
C11_CriticalRolls ==
    \A c \in ReportedChecks :
        /\ c.roll = 1 => ~ c.success
        /\ c.roll = 20 => c.success

\* a 1 failed where 1 + attribute met the difficulty class
C11_Witness ==
    \E c \in ReportedChecks :
        c.roll = 1 /\ ~ c.success /\ c.roll + EffectiveValue(c.attribute) >= c.dc

\* C12: every roll is an integer of 1..20, and a roll of 2..19 succeeds
\* exactly when roll + effective attribute value (0 for a missing
\* attribute) >= difficulty class.
C12_RollPlusAttribute ==
    /\ rollD20 \subseteq 1 .. 20
    /\ \A c \in ReportedChecks :
           /\ c.roll \in 1 .. 20
           /\ c.attrValue = EffectiveValue(c.attribute)
           /\ (c.roll \in 2 .. 19 =>
                  (c.success <=> c.roll + EffectiveValue(c.attribute) >= c.dc))

\* a roll that exactly met the difficulty class with a missing attribute
C12_Witness ==
    \E c \in ReportedChecks :
        /\ c.attribute = "LUCK"
        /\ c.roll \in 2 .. 19
        /\ c.roll = c.dc
        /\ c.success

\* C14: a call whose delta holds only a skill-check request (the step that
\* leaves a "skillCheck" observation) leaves every field of the game state
\* as it was; the roll and its outcome are in the returned summary, which
\* holds that one part.
C14_SkillCheckKeepsState ==
    [][(\E o \in observed' : o.delta = "skillCheck") =>
          /\ gameState' = gameState
          /\ \A o \in observed' :
                 /\ Len(o.summary) = 1
                 /\ o.summary[1].part = "skillCheck"
                 /\ o.summary[1].roll \in rollD20
                 /\ o.summary[1].success \in BOOLEAN]_vars

\* a successful check was reported on a state whose attributes had moved
C14_Witness ==
    /\ gameState.baseAttributes # InitialGameState.baseAttributes
    /\ gameState.gameProgression = <<>>
    /\ \E c \in ReportedChecks : c.success /\ c.roll = 10

\* C15: a call whose delta asks for nothing (the step that leaves an
\* "empty" observation) leaves every field of the game state as it was and
\* returns the empty summary, at every call.
C15_EmptyDeltaIsNoOp ==
    [][(\E o \in observed' : o.delta = "empty") =>
          /\ gameState' = gameState
          /\ observed' = {[delta |-> "empty", summary |-> <<>>]}]_vars

\* an empty delta was applied to a state whose attributes had moved
C15_Witness ==
    /\ gameState.baseAttributes # InitialGameState.baseAttributes
    /\ observed = {[delta |-> "empty", summary |-> <<>>]}

\* C13 as claimed: rollD20 runs only while the intent-parsing delta is
\* applied, never while the delta of the third narration call is applied,
\* whatever that call returned.
C13_AsClaimed ==
    \A p \in Procs :
        \A i \in 1 .. Len(turn[p].rolls) : turn[p].rolls[i] = "parseIntent"

---------------------------------------------------------------------------
(* What the claims about calculateFinalAttributes speak of *)

\* the bonus map a selection stands for in scenario sc: the empty map when
\* the category or the option is not in the scenario
BonusOf(sc, customs, c) ==
    IF /\ c \in DOMAIN customs
       /\ c \in DOMAIN sc.playerCustomizations
       /\ customs[c] \in DOMAIN sc.playerCustomizations[c]
    THEN sc.playerCustomizations[c][customs[c]]
    ELSE <<>>

\* the sum of the bonuses the selections of the categories cs give attribute a
RECURSIVE SumOfBonuses(_, _, _, _)
SumOfBonuses(sc, customs, a, cs) ==
    IF cs = {} THEN 0
    ELSE LET c == CHOOSE x \in cs : TRUE
             b == BonusOf(sc, customs, c)
         IN  (IF a \in DOMAIN b THEN b[a] ELSE 0)
                 + SumOfBonuses(sc, customs, a, cs \ {c})

\* the attributes some selection gives a bonus
BonusAttributes(sc, customs) ==
    UNION {DOMAIN BonusOf(sc, customs, c) : c \in DOMAIN customs}

\* C16: the result of calculateFinalAttributes has an entry for every base
\* attribute and every attribute of the bonus map of a selection that is in
\* the scenario, and no other; each entry is the base value (nothing for an
\* attribute without one) plus the bonuses of those selections; a selection
\* whose category or option is not in the scenario adds nothing.
C16_BasePlusBonuses ==
    \A o \in {x \in observed : x.delta = "resolved"} :
        LET base == gameState.baseAttributes
            customs == gameState.selectedCustomizations
        IN  /\ DOMAIN o.finalAttrs =
                   DOMAIN base \cup BonusAttributes(scenarioSc2, customs)
            /\ \A a \in DOMAIN o.finalAttrs :
                   o.finalAttrs[a] =
                       (IF a \in DOMAIN base THEN base[a] ELSE 0)
                           + SumOfBonuses(scenarioSc2, customs, a, DOMAIN customs)

\* LUCK was created by two bonuses while one selection named no category
\* of the scenario and STR kept its base value
C16_Witness ==
    \E o \in {x \in observed : x.delta = "resolved"} :
        /\ "faction" \in DOMAIN gameState.selectedCustomizations
        /\ "LUCK" \notin DOMAIN gameState.baseAttributes
        /\ "LUCK" \in DOMAIN o.finalAttrs
        /\ o.finalAttrs["LUCK"] = 3
        /\ o.finalAttrs["STR"] = gameState.baseAttributes["STR"]

\* C17: the result for given inputs is the same at every call, and after
\* the selection of one category has changed, every attribute outside the
\* bonus maps of that category's old and new option has the entry it had
\* (the same value, or none as before).
C17_OnlyAffectedChange ==
    \A o \in observed :
        /\ o.delta = "resolved" => o.finalAttrs = finalAttributesOf(gameState)
        /\ o.delta = "changed" =>
               LET before == calculateFinalAttributes(gameState.baseAttributes,
                                                      o.previous, scenarioSc2)
                   after == finalAttributesOf(gameState)
                   affected ==
                       DOMAIN BonusOf(scenarioSc2, o.previous, o.categoryKey)
                       \cup DOMAIN BonusOf(scenarioSc2,
                                           gameState.selectedCustomizations,
                                           o.categoryKey)
               IN  \A a \in (DOMAIN before \cup DOMAIN after) \ affected :
                       /\ a \in DOMAIN before
                       /\ a \in DOMAIN after
                       /\ before[a] = after[a]

\* the role went from warrior to rogue while the origin gave STR a bonus:
\* STR and AGI are affected, the origin's bonus stays
C17_Witness ==
    \E o \in {x \in observed : x.delta = "changed"} :
        /\ o.categoryKey = "role"
        /\ "role" \in DOMAIN o.previous
        /\ o.previous["role"] = "warrior"
        /\ gameState.selectedCustomizations["role"] = "rogue"
        /\ "origin" \in DOMAIN gameState.selectedCustomizations
        /\ gameState.selectedCustomizations["origin"] = "noble"
        /\ finalAttributesOf(gameState)["LUCK"] = 3

---------------------------------------------------------------------------
\* the entries of a dialogue history
Entries(history) == {history[i] : i \in 1 .. Len(history)}

\* C18: when two requests for one session have loaded the same stored
\* state and both have returned, the stored state is exactly the state of
\* the request whose update was the last, and the entries of the other
\* request are not in the stored history.
C18_LastWriteWins ==
    \A p, q \in Procs :
        (/\ p # q
         /\ Completed(p) /\ Completed(q)
         /\ turn[p].sessionId = turn[q].sessionId
         /\ turn[p].gameData.state = turn[q].gameData.state
         /\ lastSaved[turn[p].sessionId] = turn[p].n)
        => /\ store[turn[p].sessionId].state = turn[p].currentGameState
           /\ UserEntry(q) \notin Entries(StoredHistory(p))
           /\ \A e \in Entries(StoredHistory(p)) : e.text.n # turn[q].n
           /\ Len(StoredHistory(p)) = Len(LoadedHistory(p)) + 2

\* two requests loaded the same state, the second one saved a potion and
\* the first one saved last: the potion and the second one's entries are gone
C18_Witness ==
    \E p, q \in Procs :
        /\ p # q
        /\ Completed(p) /\ Completed(q)
        /\ turn[p].sessionId = turn[q].sessionId
        /\ turn[p].gameData.state = turn[q].gameData.state
        /\ lastSaved[turn[p].sessionId] = turn[p].n
        /\ turn[q].currentGameState.inventory # <<>>
        /\ store[turn[p].sessionId].state.inventory = <<>>
        /\ UserEntry(q) \notin Entries(StoredHistory(p))

---------------------------------------------------------------------------
(* What the claim about character creation speaks of *)

\* the game state the view has stored
CreatedState == store[NewSessionId].state
\* the option the user clicked last in a category, if any
Clicked(categoryKey) == {o \in observed : o.categoryKey = categoryKey}

\* what holds of a created state as claimed and as amended: the
\* customizations, the inventory, the flags and the history
CreatedRest ==
    /\ DOMAIN CreatedState.selectedCustomizations
           = DOMAIN viewScenario.playerCustomizations
    /\ \A c \in DOMAIN viewScenario.playerCustomizations :
           /\ Clicked(c) = {} =>
                  CreatedState.selectedCustomizations[c]
                      = viewScenario.firstOption[c]
           /\ \A o \in Clicked(c) :
                  CreatedState.selectedCustomizations[c] = o.optionKey
    /\ CreatedState.inventory = <<>>
    /\ CreatedState.gameProgression = <<>>
    /\ Len(CreatedState.dialogueHistory) = 1
    /\ CreatedState.dialogueHistory[1].role = "dm"

\* C20 as claimed: the stored state has every attribute at the fixed
\* starting value, the first option of each category unless the user chose
\* another, no item, no skill, no flag and one narrator entry.
C20_AsClaimed ==
    NewSessionId \in DOMAIN store =>
        /\ CreatedState.baseAttributes =
               [a \in viewScenario.attributes |-> BASE_ATTRIBUTE_VALUE]
        /\ CreatedState.playerSkills = <<>>
        /\ CreatedState.inventory = <<>>
        /\ CreatedState.gameProgression = <<>>
        /\ Len(CreatedState.dialogueHistory) = 1

\* C20 as amended: the stored state has every scenario attribute at the
\* fixed starting value or above, with no bonus point left to allocate;
\* between one and MAX_STARTING_SKILLS different skills of the scenario,
\* each at level 1; the first option of each category unless the user
\* chose another; no item, no flag and one narrator entry.
C20_CreatedState ==
    NewSessionId \in DOMAIN store =>
        /\ DOMAIN CreatedState.baseAttributes = viewScenario.attributes
        /\ \A a \in viewScenario.attributes :
               CreatedState.baseAttributes[a] >= BASE_ATTRIBUTE_VALUE
        /\ view.remainingPoints = 0
        /\ CreatedState.baseAttributes = view.baseAttributeValues
        /\ Len(CreatedState.playerSkills) \in 1 .. MAX_STARTING_SKILLS
        /\ \A i, j \in 1 .. Len(CreatedState.playerSkills) :
               /\ CreatedState.playerSkills[i].skillName
                      \in viewScenario.baseSkills
               /\ CreatedState.playerSkills[i].level = 1
               /\ (CreatedState.playerSkills[i].skillName
                       = CreatedState.playerSkills[j].skillName => i = j)
        /\ CreatedRest

\* a game was created with two skills, the role changed to rogue and the
\* origin left at its first option
C20_Witness ==
    /\ NewSessionId \in DOMAIN store
    /\ Len(CreatedState.playerSkills) = 2
    /\ CreatedState.selectedCustomizations["role"] = "rogue"
    /\ Clicked("origin") = {}
    /\ CreatedState.baseAttributes["STR"] > BASE_ATTRIBUTE_VALUE

---------------------------------------------------------------------------
(* What the claim about malformed deltas speaks of *)

\* a list without its null elements
RECURSIVE withoutNull(_)
withoutNull(cs) ==
    IF cs = <<>> THEN <<>>
    ELSE IF Head(cs) = Null THEN withoutNull(Tail(cs))
    ELSE <<Head(cs)>> \o withoutNull(Tail(cs))

\* the attribute changes that name an attribute the state has
RECURSIVE knownAttributes(_, _)
knownAttributes(gs, cs) ==
    IF cs = <<>> THEN <<>>
    ELSE IF Head(cs).attribute \in DOMAIN gs.baseAttributes
    THEN <<Head(cs)>> \o knownAttributes(gs, Tail(cs))
    ELSE knownAttributes(gs, Tail(cs))

\* the delta without what is malformed in it
wellFormedPart(gs, chg) ==
    [chg EXCEPT !.itemChanges = withoutNull(@),
                !.attributeChanges = knownAttributes(gs, withoutNull(@)),
                !.skillChanges = withoutNull(@),
                !.storyFlags = withoutNull(@)]

\* C19 as claimed: a call with a malformed delta does not throw, and the
\* state after it is the state the rest of the delta gives: the malformed
\* element or field changes nothing and every other field is applied.
C19_AsClaimed ==
    \A o \in {x \in observed : x.delta = "parsedJson"} :
        /\ ~ o.threw
        /\ gameState =
               applyGameStateChanges(o.before,
                                     wellFormedPart(o.before, o.changes),
                                     finalAttributesOf(o.before), 0).gameState

---------------------------------------------------------------------------
(* What the claim about loadSave speaks of *)

\* the call of tab p has ended without an error
Loaded(p) == loads[p].pc = "done" /\ loads[p].result = "loaded"
\* the chosen session is active and the owner's other sessions are not
OnlyChosenActive(p) ==
    /\ loads[p].id \in DOMAIN store
    /\ store[loads[p].id].is_active
    /\ \A g \in DOMAIN store :
           (g # loads[p].id /\ store[g].user_id = loads[p].user)
               => ~ store[g].is_active

\* the step in which the call of tab p ends without an error
Completes(p) == ~ Loaded(p) /\ Loaded(p)'

\* C21 as claimed: when loadSave(id) ends without an error, session id is
\* active and every other session of the same owner is inactive.
C21_AsClaimed ==
    [][\A p \in Procs : Completes(p) => OnlyChosenActive(p)']_vars

\* C21 as amended: a call that ends without an error made two updates,
\* the one that deactivates the owner's sessions and then the one that
\* activates the chosen session; when no other tab
\* of the user has written the table since the call began, the chosen
\* session is active and the user's other sessions are not.
C21_ResetThenActivate ==
    [][\A p \in Procs :
          Completes(p) =>
              /\ loads'[p].writes = <<"reset", "activate">>
              /\ loads'[p].alone => OnlyChosenActive(p)']_vars

\* alice has loaded g2 alone: g2 is the one active game of alice, and
\* bob's game is still active
C21_Witness ==
    \E p \in Procs :
        /\ Loaded(p)
        /\ loads[p].alone
        /\ loads[p].user = "alice"
        /\ loads[p].id = "g2"
        /\ store["g2"].is_active
        /\ ~ store["g1"].is_active
        /\ store["b1"].is_active

---------------------------------------------------------------------------
\* the request of p waits for an external call
Waiting(p) ==
    turn[p].pc \in {"getUser", "select", "await1", "await2", "await3",
                    "awaitSave"}
\* the request of p has ended: it returned the state or it threw
Ended(p) ==
    /\ turn[p].pc = "done"
    /\ turn[p].result \in
           {"returned", "save failed"} \cup AuthErrors \cup NotFoundErrors

\* C22: when every external call (getUser, the select, the three LLM calls,
\* the update) returns or fails, every turn that has started ends: it
\* returns the updated state or throws, and never waits for ever.
C22_TurnTerminates ==
    \A p \in Procs : Waiting(p) ~> Ended(p)

\* the second turn has passed every await and returned
C22_Witness ==
    /\ Completed(1)
    /\ turn[1].n = MaxTurns
    /\ turn[1].failedAt = ""
    /\ Len(turn[1].events) >= 3

---------------------------------------------------------------------------
(* What the claims about single changes speak of *)

\* the entries of an inventory for the item name, and the other entries
EntriesOf(inventory, name) == SelectSeq(inventory, LAMBDA e : e.item = name)
EntriesBut(inventory, name) == SelectSeq(inventory, LAMBDA e : e.item # name)
\* the item names of an inventory, in order
ItemOrder(inventory) == [i \in 1 .. Len(inventory) |-> inventory[i].item]

\* what the claim says of the item change (name, d) between the inventory
\* before and the inventory after
ItemChangeAsClaimed(before, after, name, d) ==
    /\ EntriesBut(after, name) = EntriesBut(before, name)
    /\ EntriesOf(before, name) # <<>> =>
           LET sum == EntriesOf(before, name)[1].quantity + d
           IN  IF sum <= 0
               THEN after = EntriesBut(before, name)
               ELSE /\ ItemOrder(after) = ItemOrder(before)
                    /\ EntriesOf(after, name) =
                           <<[item |-> name, quantity |-> sum]>>
    /\ (EntriesOf(before, name) = <<>> /\ d > 0) =>
           after = Append(before, [item |-> name, quantity |-> d])
    /\ (EntriesOf(before, name) = <<>> /\ d <= 0) => after = before

\* C23: an item change (item, d): an entry of that name gets quantity
\* old + d and is removed when that is <= 0; without such an entry a new
\* entry (item, d) is appended at the end when d > 0 and the inventory is
\* unchanged when d <= 0; the entries of other items keep their quantity
\* and relative order.
C23_ItemChange ==
    [][\A o \in observed' :
          o.delta = "itemChange" =>
              ItemChangeAsClaimed(gameState.inventory, gameState'.inventory,
                                  o.name, o.value)]_vars

\* the sword has just been taken out from between two other entries
C23_Witness ==
    /\ \E o \in observed :
           o.delta = "itemChange" /\ o.name = "sword" /\ o.value < 0
    /\ Len(gameState.inventory) = 2
    /\ ~ ("sword" \in ItemNames(gameState.inventory))
    /\ gameState.inventory[1].item = "rope"

\* the skill list with the level of the skill name set
WithLevel(playerSkills, name, level) ==
    [i \in 1 .. Len(playerSkills) |->
        IF playerSkills[i].skillName = name
        THEN [playerSkills[i] EXCEPT !.level = level] ELSE playerSkills[i]]
\* the level of the skill name in a list that holds it
LevelOf(playerSkills, name) ==
    playerSkills[findSkillIndex(playerSkills, name)].level

\* what the claim says of the skill change o between the list before and
\* the list after, where a learned skill gets the level learnLevel
SkillChangeRule(before, after, o, learnLevel) ==
    LET present == o.name \in SkillNamesOf(before)
    IN  /\ (o.type = "learn" /\ ~ present) =>
               after = Append(before, [skillName |-> o.name,
                                       level |-> learnLevel])
        /\ (o.type = "learn" /\ present) => after = before
        /\ (o.type = "improve" /\ present /\ o.hasValue) =>
               after = WithLevel(before, o.name,
                                 LevelOf(before, o.name) + o.value)
        /\ (o.type = "deteriorate" /\ present /\ o.hasValue) =>
               after = WithLevel(before, o.name,
                                 Max(0, LevelOf(before, o.name) - o.value))
        /\ (o.type = "forget" /\ present) =>
               after = SelectSeq(before, LAMBDA e : e.skillName # o.name)
        /\ (o.type # "learn" /\ ~ present) => after = before

\* C24 as claimed: learn on an absent skill appends it with level = value,
\* or 1 when no value is given, and is a no-op on a present skill; improve
\* adds value to the level of a present skill; deteriorate subtracts value
\* with the result floored at 0; forget removes a present skill; improve,
\* deteriorate and forget on an absent skill leave the list unchanged.
C24_AsClaimed ==
    [][\A o \in observed' :
          o.delta = "skillChange" =>
              SkillChangeRule(gameState.playerSkills,
                              gameState'.playerSkills, o,
                              IF o.hasValue THEN o.value ELSE 1)]_vars

\* C24 as amended: as claimed, except that a learned skill gets level 1
\* also when the value given is 0, and that improve and deteriorate
\* without a value leave the list unchanged.
C24_SkillChange ==
    [][\A o \in observed' :
          o.delta = "skillChange" =>
              /\ SkillChangeRule(gameState.playerSkills,
                                 gameState'.playerSkills, o,
                                 IF o.hasValue /\ o.value # 0
                                 THEN o.value ELSE 1)
              /\ (o.type \in {"improve", "deteriorate"} /\ ~ o.hasValue) =>
                     gameState'.playerSkills = gameState.playerSkills]_vars

\* lockpick has just been learned with the value 0, and has level 1
C24_Witness ==
    /\ \E o \in observed :
           /\ o.delta = "skillChange"
           /\ o.type = "learn"
           /\ o.name = "lockpick"
           /\ o.hasValue
           /\ o.value = 0
    /\ Len(gameState.playerSkills) = 2
    /\ gameState.playerSkills[2] = [skillName |-> "lockpick", level |-> 1]

\* C25 as claimed: every skill of the state has level >= 0, whatever signed
\* values the learn, improve and deteriorate changes of the calls carried.
C25_AsClaimed ==
    \A i \in 1 .. Len(gameState.playerSkills) :
        gameState.playerSkills[i].level >= 0

---------------------------------------------------------------------------
(* What the claims about the deltas of a turn speak of *)

\* the deltas the request of p has applied, in the order it applied them
AppliedDeltas(p) ==
    (IF turn[p].parsedAction = Undefined THEN <<>>
     ELSE <<turn[p].parsedAction>>)
    \o (IF turn[p].dmChanges = Undefined THEN <<>>
        ELSE <<turn[p].dmChanges>>)

\* the sum of the valueChange entries for attribute a in a list of changes
RECURSIVE SumOfChanges(_, _)
SumOfChanges(cs, a) ==
    IF cs = <<>> THEN 0
    ELSE (IF Head(cs).attribute = a THEN Head(cs).valueChange ELSE 0)
             + SumOfChanges(Tail(cs), a)

\* the same sum over the attribute changes of a list of deltas
RECURSIVE SumOfDeltas(_, _)
SumOfDeltas(ds, a) ==
    IF ds = <<>> THEN 0
    ELSE SumOfChanges(Head(ds).attributeChanges, a) + SumOfDeltas(Tail(ds), a)

\* the value of attribute a in a map, 0 when the map has no such entry
ValueOr0(attrs, a) == IF a \in DOMAIN attrs THEN attrs[a] ELSE 0

\* C26: after a turn each stored base attribute is its value before the
\* turn (0 if it had none) plus the valueChange entries for it in the
\* deltas the turn applied: no customization bonus is stored, so the
\* effective attributes computed from the stored state hold every bonus
\* exactly once.
C26_BonusesNotStored ==
    \A p \in Procs :
        Completed(p) =>
            LET before == turn[p].gameData.state
                after == store[turn[p].sessionId].state
                sc == turn[p].scenario
            IN  /\ \A a \in DOMAIN after.baseAttributes :
                       after.baseAttributes[a] =
                           ValueOr0(before.baseAttributes, a)
                               + SumOfDeltas(AppliedDeltas(p), a)
                /\ DOMAIN before.baseAttributes
                       \subseteq DOMAIN after.baseAttributes
                /\ after.selectedCustomizations = before.selectedCustomizations
                /\ \A a \in DOMAIN finalAttributesOf(after) :
                       finalAttributesOf(after)[a] =
                           ValueOr0(after.baseAttributes, a)
                               + SumOfBonuses(sc, after.selectedCustomizations,
                                              a, DOMAIN after.selectedCustomizations)

\* the second turn has returned; each turn raised STR, which has a bonus,
\* by 1: the stored base value is 12 and the effective value 14
C26_Witness ==
    /\ Completed(1)
    /\ turn[1].n = MaxTurns
    /\ turn[1].parsedAction # Undefined
    /\ SumOfDeltas(AppliedDeltas(1), "STR") = 1
    /\ store[turn[1].sessionId].state.baseAttributes["STR"] = 12
    /\ finalAttributesOf(store[turn[1].sessionId].state)["STR"] = 14

\* the flags a delta sets, and the value it leaves a flag with (the last
\* entry for the flag)
FlagsOf(d) == {d.storyFlags[i].flag : i \in 1 .. Len(d.storyFlags)}
FlagValue(d, flag) ==
    LET last == CHOOSE i \in 1 .. Len(d.storyFlags) :
                    /\ d.storyFlags[i].flag = flag
                    /\ \A j \in i + 1 .. Len(d.storyFlags) :
                           d.storyFlags[j].flag # flag
    IN  d.storyFlags[last].value
\* the deltas of AppliedDeltas(p) that set the location, or the flag
SettingLocation(p) ==
    SelectSeq(AppliedDeltas(p), LAMBDA d : d.locationUpdate # "")
SettingFlag(p, flag) ==
    SelectSeq(AppliedDeltas(p), LAMBDA d : flag \in FlagsOf(d))
\* both deltas of the request were applied and set the location, or the flag
BothSetLocation(p) == Len(SettingLocation(p)) = 2
BothSetFlag(p, flag) == Len(SettingFlag(p, flag)) = 2

\* C27: the intent delta is applied before the narrative-derived delta:
\* when both set the location, or the same story flag, the final state
\* holds the value of the narrative-derived delta; when one of them sets
\* it, the final state holds that value; when none does, the value is the
\* one the turn loaded.
C27_NarrativeDeltaLast ==
    \A p \in Procs :
        Completed(p) =>
            LET before == turn[p].gameData.state
                after == store[turn[p].sessionId].state
                locs == SettingLocation(p)
            IN  /\ after.currentLocation =
                       IF locs = <<>> THEN before.currentLocation
                       ELSE locs[Len(locs)].locationUpdate
                /\ BothSetLocation(p) =>
                       after.currentLocation = turn[p].dmChanges.locationUpdate
                /\ \A flag \in DOMAIN after.gameProgression :
                       LET fs == SettingFlag(p, flag)
                       IN  /\ after.gameProgression[flag] =
                                  IF fs = <<>> THEN before.gameProgression[flag]
                                  ELSE FlagValue(fs[Len(fs)], flag)
                           /\ BothSetFlag(p, flag) =>
                                  after.gameProgression[flag] =
                                      FlagValue(turn[p].dmChanges, flag)

\* the second turn has returned: its deltas both set the location, which
\* is the tower of the narrative-derived delta, and only its intent delta
\* set the flag quest, which holds that delta's value
C27_Witness ==
    /\ Completed(1)
    /\ turn[1].n = MaxTurns
    /\ BothSetLocation(1)
    /\ store[turn[1].sessionId].state.currentLocation = "tower"
    /\ Len(SettingFlag(1, "quest")) = 1
    /\ store[turn[1].sessionId].state.gameProgression["quest"] = "started"

\* the request of p has applied an intent delta that asked for a skill check
IntentChecked(p) ==
    /\ turn[p].parsedAction # Undefined
    /\ rollsDice(turn[p].parsedAction)
    /\ turn[p].userActionNarrativeContext # <<>>
\* the skill-check part of the summary of that delta (its last part)
IntentCheck(p) ==
    turn[p].userActionNarrativeContext[Len(turn[p].userActionNarrativeContext)]
\* the effective attributes of the state the request loaded
LoadedAttributes(p) == finalAttributesOf(turn[p].gameData.state)

\* C28: the skill check of an intent delta uses the effective attributes
\* computed before the delta was applied, also for an attribute the delta
\* changes; the narrative and delta-extraction calls are made with the
\* effective attributes recomputed from the state the delta left.
C28_CheckBeforeChange ==
    \A p \in Procs :
        /\ IntentChecked(p) =>
               LET c == IntentCheck(p)
                   value == ValueOr0(LoadedAttributes(p), c.attribute)
               IN  /\ c.part = "skillCheck"
                   /\ c.attrValue = value
                   /\ c.roll \in 2 .. 19 =>
                          (c.success <=> c.roll + value >= c.dc)
        /\ turn[p].pc \in {"await2", "await3"} =>
               /\ turn[p].finalAttributes =
                      finalAttributesOf(turn[p].currentGameState)
               /\ \A a \in DOMAIN turn[p].finalAttributes :
                      turn[p].finalAttributes[a] =
                          ValueOr0(LoadedAttributes(p), a)
                              + SumOfChanges(
                                    turn[p].parsedAction.attributeChanges, a)

\* the delta raised STR by 1 and asked for a check on STR: the roll of 13
\* failed against 26 with the value 12 from before the change, while the
\* narrative call is awaited with STR 13
C28_Witness ==
    /\ turn[1].pc = "await2"
    /\ IntentChecked(1)
    /\ IntentCheck(1).attribute = "STR"
    /\ SumOfChanges(turn[1].parsedAction.attributeChanges, "STR") = 1
    /\ IntentCheck(1).roll = 13
    /\ IntentCheck(1).attrValue = 12
    /\ ~ IntentCheck(1).success
    /\ turn[1].finalAttributes["STR"] = 13

\* the request of p got a narrative from call 2 and then failed in call 3
NarratedThenFailed(p) ==
    /\ Completed(p)
    /\ turn[p].failedAt = "extractDelta"
    /\ Event("generateNarrative", "returned") \in
           {turn[p].events[i] : i \in 1 .. Len(turn[p].events)}

---------------------------------------------------------------------------
(* What the claim about the allocator speaks of *)

\* the bonus points the base values hold: the sum of (base value - 5)
RECURSIVE PointsSpent(_, _)
PointsSpent(values, todo) ==
    IF todo = {} THEN 0
    ELSE LET a == CHOOSE x \in todo : TRUE
         IN  (values[a] - BASE_ATTRIBUTE_VALUE) + PointsSpent(values, todo \ {a})

\* C30 as claimed: after any sequence of handleAttributeChange(attribute,
\* +1 or -1) calls, remainingPoints is 10 minus the sum over the attributes
\* of (base value - 5), remainingPoints is within 0..10 and no base value
\* is below 5; so a game is only created with base values that sum to
\* 5 * (number of attributes) + 10.
C30_AsClaimed ==
    /\ view.remainingPoints =
           TOTAL_BONUS_POINTS
               - PointsSpent(view.baseAttributeValues,
                             DOMAIN view.baseAttributeValues)
    /\ view.remainingPoints \in 0 .. TOTAL_BONUS_POINTS
    /\ \A a \in DOMAIN view.baseAttributeValues :
           view.baseAttributeValues[a] >= BASE_ATTRIBUTE_VALUE
    /\ NewSessionId \in DOMAIN store =>
           PointsSpent(CreatedState.baseAttributes,
                       DOMAIN CreatedState.baseAttributes) = TOTAL_BONUS_POINTS

=============================================================================
